---- MODULE Spec2Model ----
(***************************************************************************)
(* Verification model of arbitui's gateway.                                *)
(*                                                                         *)
(*   Spec      the per-connection session of server.py                     *)
(*             (websocket_endpoint: recv_loop, send_loop,                  *)
(*             handle_client_msg_loop under one TaskGroup)                 *)
(*   FairSpec  the same session under the event loop's scheduling          *)
(*   MuxSpec   the RPC path of handler.py (Handler._rpc_call over          *)
(*             Socket.call) with several concurrent callers                *)
(*   MuxFairSpec  MuxSpec under the event loop's scheduling                *)
(*   MuxDupSpec   MuxSpec with an engine that may answer twice             *)
(*   RpcSpec      one call of _rpc_call of lib.py                          *)
(*   MatrixSpec   one call of get_arbitrage_matrix of server.py            *)
(*   ClientSpec   the terminal client of client.py as receiver             *)
(*   ConnSpec     the three tasks of ws_async of client.py                 *)
(*   ConnFairSpec ConnSpec under the event loop's scheduling               *)
(*   CacheSpec    the cache of Handler.vol_sampling of handler.py          *)
(*   DbSpec       init_db and update_conventions of db.py                  *)
(*   GridSpec     the navigation of ArbitrageGrid of client.py             *)
(***************************************************************************)
EXTENDS Integers, Sequences, FiniteSets, TLC

\* ------------------------------------------------------------------ bounds
\* Number of frames the UI client writes during one session.
MaxFrames == 2
\* Number of file loads, storage lookups and RPC calls that fail during
\* the session.
MaxFaults == 1
\* Number of concurrent callers of Handler._rpc_call.
NumCalls == 2
\* Largest value of settings.max_requests_in_flight that is tried.
MaxCeiling == 2
\* Number of tenors, and of expiries per tenor, of the cubes
\* get_arbitrage_matrix is called with.
MaxTenors == 1
MaxExpiries == 3
\* Number of frames the terminal client receives from the gateway.
MaxServerMsgs == 2
\* Number of requests the user interface submits.
MaxUiMsgs == 1
\* Number of heartbeat pings the client writes.
MaxBeats == 1
\* Number of Handlers (one per session) that call vol_sampling, number of
\* RPC calls they issue, and settings.vol_sampling_cache_ttl in ticks of
\* the clock.
NumHandlers == 2
MaxSamplings == 2
vol_sampling_cache_ttl == 2
\* Number of client connections, each of which runs init_db.
MaxInits == 2
\* Number of tenors and of expiries of the matrix the grid shows.
MaxGridTenors == 4
MaxGridExpiries == 5

\* --------------------------------------------------------------- settings
\* settings.bulk_arbitrage_matrix, at its default.
bulk_arbitrage_matrix == TRUE

\* ------------------------------------------------------------- wire types
\* message.py: the discriminants of ClientMsg.
ClientMsgTypes ==
    {"ping", "load_cube", "get_conventions", "get_rates",
     "get_arbitrage_matrix", "get_arbitrage_check", "get_vol_samples"}

\* message.py: the discriminants of ServerMsg.
ServerMsgTypes ==
    {"pong", "vola_cube", "conventions", "rates", "arbitrage_matrix",
     "arbitrage_check", "vol_samples", "notification"}

\* message.py: Severity.
Severity == {"information", "error", "warning"}

\* Text frames the client may write: every recognised discriminant with
\* well-formed fields, one unrecognised discriminant, one recognised
\* discriminant with a missing field, and one frame that is not JSON.
WireFrames ==
    {[json |-> TRUE, type |-> t, fields_ok |-> TRUE] : t \in ClientMsgTypes}
      \cup {[json |-> TRUE, type |-> "bogus", fields_ok |-> TRUE],
            [json |-> TRUE, type |-> "get_rates", fields_ok |-> FALSE],
            [json |-> FALSE, type |-> "", fields_ok |-> FALSE]}

\* client_msg_adapter.validate_python: the tagged union validates iff the
\* discriminant is one of ClientMsg's and the payload's fields validate.
AcceptsAnyTag(js) == js.fields_ok
ValidatesAsClientMsg(js) == js.type \in ClientMsgTypes /\ js.fields_ok

\* The ValidationError of a frame that does not validate, which recv_loop
\* writes into its log record.
ValidationErrorOf(js) ==
    IF js.type \notin ClientMsgTypes THEN "union_tag_invalid" ELSE "missing"

\* dtos.VolatilityCube: cube : dict[str, VolatilitySurface] and
\* VolatilitySurface.surface : dict[str, VolatilitySkew], neither with a
\* minimum size.  A cube is written as the sequence of its surfaces' sizes.
Cubes == {<< >>, <<1, 1>>}

\* The (tenor, expiry) cells of a cube, in dict order.
Cells(vol) == UNION {{<<t, e>> : e \in 1..vol[t]} : t \in 1..Len(vol)}

\* list(vol.cube.keys())[0] and list(vol.cube[tenor].surface.keys())[0]
\* raise IndexError on an empty dict.
FirstCellRaises(vol) == Len(vol) = 0 \/ vol[1] = 0

\* ------------------------------------------------------------------ state
VARIABLES
    ws,        \* the websocket: "open", "peer_closed", "closed"
    net,       \* frames written by the client, not yet read by recv_loop
    nSent,     \* number of frames the client has written
    nFaults,   \* number of file loads, lookups and RPC calls that have failed
    q_in,      \* Queue[ClientMsg]
    q_out,     \* Queue[ServerMsg]
    recv,      \* recv_loop:  "running", "done", "failed", "cancelled"
    send,      \* send_loop:  "waiting", "sending", "failed", "cancelled"
    sendMsg,   \* <<m>>: the envelope send_loop took from q_out and has not
               \*   written; << >> when it holds none
    disp,      \* handle_client_msg_loop: "idle", a step of a handler,
               \*   "done", "cancelled"
    cur,       \* the message handle_client_msg is working on
    wire,      \* envelopes written to the websocket by send_json, in order
    enq,       \* every envelope ever put on q_out, in the order of the puts
    endpoint,  \* websocket_endpoint: "running" (inside the TaskGroup),
               \*   "aborting" (the group has cancelled its tasks), "returned"
    reqs,      \* per client frame: what became of its handling
    log        \* the kinds of logger.exception records written so far

\* The RPC path (MuxSpec).
VARIABLES
    cst,       \* per caller: where it is in Handler._rpc_call / Socket.call
    cid,       \* per caller: the correlation identifier of its request
    fut,       \* per caller: the result slot of its call
    result,    \* per caller: what _rpc_call returned or raised
    usedIds,   \* the identifiers generated so far
    pending,   \* the pending-call table: identifier -> caller (0: no entry)
    max_requests_in_flight, \* settings.max_requests_in_flight
    sem,       \* free permits of the admission semaphore
    chanReq,   \* requests written to the connection, not yet answered
    chanRsp,   \* responses written by the engine, not yet read
    connOpen,  \* the connection to the pricing engine is up
    discarded  \* the responses that matched no entry

\* The terminal client (ClientSpec).
VARIABLES
    c_ws,      \* the client's websocket: "open", "closed"
    c_nRecv,   \* number of frames the client has received from the gateway
    c_nUi,     \* number of requests the user interface has submitted
    c_nBeats,  \* number of heartbeat pings written
    c_q_in,    \* Queue[ServerMsg] of the client
    c_q_out,   \* Queue[ClientMsg] of the client
    q_toast,   \* Queue[ToastMessage]
    toasted,   \* every ToastMessage ever put on q_toast, in order
    shown,     \* the calls of App.notify, in order
    handled,   \* the server messages handle_server_msg was called with
    hb,        \* send_heartbeat: "running", "done", "failed", "cancelled"
    c_send,    \* ws_async.send_loop, likewise
    c_recv,    \* ws_async.recv_loop, likewise
    c_log,     \* the kinds of log.error records written so far
    c_state,   \* Arbitui.state: per field of State its payload, 0 for None
    q_state_updates \* Queue[Callable[[State], State]]

\* One call of _rpc_call, from the response to its outcome (RpcSpec).
VARIABLES
    rpc_js,    \* the JSON body of the engine's response
    rpc_kls,   \* the type the caller expects
    rpc_out    \* what the call returned or raised; Unset before it ends

\* One call of get_arbitrage_matrix (MatrixSpec).
VARIABLES
    m_bulk,    \* settings.bulk_arbitrage_matrix
    m_vol,     \* the cube
    m_pc,      \* "start", "joining", "returned", "raised"
    m_task,    \* per cell: the state of its task
    m_calls,   \* per cell: number of arbitrage checks issued for it
    m_bulkCalls, \* number of bulk calls issued
    m_rows,    \* the rows of the bulk call's result
    m_Q,       \* the queue Q the tasks put their results on
    m_result   \* the list get_arbitrage_matrix returned

\* The cache of Handler.vol_sampling (CacheSpec).
VARIABLES
    vs_cache,  \* the entries of the memory cache
    vs_rpcs,   \* number of RPC calls issued by vol_sampling
    vs_pc,     \* per Handler: "idle", "calling", "returned", "raised"
    vs_args,   \* per Handler: the arguments of its call
    vs_val,    \* per Handler: the result of the RPC call it is waiting for
    vs_ret     \* per Handler: what its last call returned

\* The database (DbSpec).
VARIABLES
    db_tables, \* the tables that exist
    db_rate,   \* the rows of table rate
    db_conv,   \* the rows of table vol_conventions
    db_inits,  \* number of times init_db has run
    db_last    \* the last operation: "none", "init_db", "update_conventions"

\* The arbitrage grid (GridSpec).
VARIABLES
    g_tenors,    \* ArbitrageGrid.tenors
    g_expiries,  \* ArbitrageGrid.expiries
    g_selected,  \* ArbitrageGrid.selected_pair; << >> for None
    g_raised,    \* a navigation action has raised
    g_last       \* the last navigation action; "none" before the first

muxVars ==
    <<cst, cid, fut, result, usedIds, pending, max_requests_in_flight, sem,
      chanReq, chanRsp, connOpen, discarded>>

clientVars ==
    <<c_ws, c_nRecv, c_nUi, c_nBeats, c_q_in, c_q_out, q_toast, toasted,
      shown, handled, hb, c_send, c_recv, c_log, c_state, q_state_updates>>

\* The state of the user interface and the updates waiting to be applied.
stateVars == <<c_state, q_state_updates>>

rpcVars == <<rpc_js, rpc_kls, rpc_out>>

matrixVars ==
    <<m_bulk, m_vol, m_pc, m_task, m_calls, m_bulkCalls, m_rows, m_Q,
      m_result>>

sessionVars ==
    <<ws, net, nSent, nFaults, q_in, q_out, recv, send,
      sendMsg, disp, cur, wire, enq, endpoint, reqs, log>>

cacheVars == <<vs_cache, vs_rpcs, vs_pc, vs_args, vs_val, vs_ret>>

dbVars == <<db_tables, db_rate, db_conv, db_inits, db_last>>

gridVars == <<g_tenors, g_expiries, g_selected, g_raised, g_last>>

vars ==
    <<sessionVars, muxVars, clientVars, rpcVars, matrixVars, cacheVars,
      dbVars, gridVars>>

\* What an action of one part leaves alone.
gatewayVars == <<sessionVars, muxVars, clientVars, rpcVars, matrixVars>>
outsideSession ==
    <<muxVars, clientVars, rpcVars, matrixVars, cacheVars, dbVars, gridVars>>
outsideMux ==
    <<sessionVars, clientVars, rpcVars, matrixVars, cacheVars, dbVars,
      gridVars>>
outsideClient ==
    <<sessionVars, muxVars, rpcVars, matrixVars, cacheVars, dbVars, gridVars>>
outsideRpc ==
    <<sessionVars, muxVars, clientVars, matrixVars, cacheVars, dbVars,
      gridVars>>
outsideMatrix ==
    <<sessionVars, muxVars, clientVars, rpcVars, cacheVars, dbVars, gridVars>>
outsideCache == <<gatewayVars, dbVars, gridVars>>
outsideDb == <<gatewayVars, cacheVars, gridVars>>
outsideGrid == <<gatewayVars, cacheVars, dbVars>>

Terminal == {"done", "failed", "cancelled"}

NoMsg == [no |-> 0, type |-> "none", vol |-> << >>]

\* What the dispatcher recorded about the frame numbered no.
NoReq == [type |-> "none", state |-> "none", loaded |-> FALSE, failed |-> {}]

\* An outbound envelope.  seq is the order in which it was put on q_out and
\* req the number of the client frame whose handling produced it.
Envelope(type, severity, msg, req, seq) ==
    [type |-> type, severity |-> severity, msg |-> msg, req |-> req,
     seq |-> seq]

\* asyncio.Queue.put on an unbounded queue: append at the tail.
QueuePut(q, x) == Append(q, x)

\* asyncio.Queue.get: the item at the head, and the queue without it.
QueueGetLifo(q) == <<q[Len(q)], SubSeq(q, 1, Len(q) - 1)>>
QueueGet(q) == <<Head(q), Tail(q)>>

\* The envelopes es, stamped with their places in the order of puts.
Stamp(es, n) ==
    [i \in 1..Len(es) |->
       Envelope(es[i][1], es[i][2], es[i][3], es[i][4], n + i)]

RECURSIVE PutEach(_, _)
PutEach(q, es) ==
    IF es = << >> THEN q ELSE PutEach(QueuePut(q, Head(es)), Tail(es))

\* await q_out.put(e) for each <<type, severity, msg, req>> of es in turn.
\* The envelopes go on the queue and nothing is written to the websocket.
SendJson(es) ==
    /\ wire' = wire \o Stamp(es, Len(enq))
    /\ enq' = enq \o Stamp(es, Len(enq))
    /\ UNCHANGED q_out
Put(es) ==
    /\ q_out' = PutEach(q_out, Stamp(es, Len(enq)))
    /\ enq' = enq \o Stamp(es, Len(enq))
    /\ UNCHANGED wire

\* log_notify_error(msg): logger.exception(msg), then
\* q_out.put(Notification(msg, ERROR)).
LogError(msg, req) ==
    /\ log' = log \cup {msg}
    /\ UNCHANGED <<q_out, enq, wire>>
LogNotifyError(msg, req) ==
    /\ Put(<< <<"notification", "error", msg, req>> >>)
    /\ log' = log \cup {msg}

\* ---------------------------------------------------------------- RPC path
Callers == 1..NumCalls

\* Correlation identifiers (uuid4 strings), and the one the table never holds.
Ids == 1..NumCalls

Unset == [kind |-> "unset", value |-> 0]

\* The request caller c sends: its params are its own, and the engine's
\* answer to them is recognisably the answer to c.
Params(c) == c

\* handler.py: id=str(uuid.uuid4()) - an identifier no earlier request has.
\* Identifiers are opaque, so of the unused ones the least stands for all.
AnyId(used) == Ids
FreshId(used) == {i \in Ids \ used : \A j \in Ids \ used : i <= j}

\* lib.py _rpc_call, from the decoded RpcResponse to the call's outcome:
\* an error object wins over everything, then a missing result, then the
\* validation of the result as the expected type.
ResultFirst(rsp) ==
    IF rsp.result = "value" THEN [kind |-> "ok", value |-> rsp.value]
    ELSE IF rsp.error THEN [kind |-> "RemoteError", value |-> 0]
    ELSE IF rsp.result = "null" THEN [kind |-> "MissingResult", value |-> 0]
    ELSE [kind |-> "DecodeError", value |-> 0]
RpcOutcome(rsp) ==
    IF rsp.error THEN [kind |-> "RemoteError", value |-> 0]
    ELSE IF rsp.result = "null" THEN [kind |-> "MissingResult", value |-> 0]
    ELSE IF rsp.result = "malformed" THEN [kind |-> "DecodeError", value |-> 0]
    ELSE [kind |-> "ok", value |-> rsp.value]

\* The responses the engine may give to a request: a result, a result
\* that is not of the expected type, neither result nor error, and an
\* error (sent along with a result).
Responses(rq) ==
    {[id |-> rq.id, error |-> FALSE, result |-> "value", value |-> rq.params],
     [id |-> rq.id, error |-> FALSE, result |-> "malformed", value |-> 0],
     [id |-> rq.id, error |-> FALSE, result |-> "null", value |-> 0],
     [id |-> rq.id, error |-> TRUE, result |-> "value", value |-> rq.params]}

\* Socket: the admission semaphore has a free permit.
NoCeiling(s) == TRUE
CanAcquire(s) == s > 0

\* Socket: the permit of a call that completes is given back.
NoRelease(s) == s
Release(s) == s + 1

\* Socket: a request is written once its call is in the table.
WritesEarly(s) == s \in {"admitted", "registered"}
ReadyToWrite(s) == s = "registered"

\* Socket: the table without the entry of identifier i.
KeepEntry(tbl, i) == tbl
RemoveEntry(tbl, i) == [tbl EXCEPT ![i] = 0]

\* Socket: the call a response with identifier i is for - the one the
\* table holds under i, 0 when it holds none.
LookupByWireId(tbl, i) ==
    IF \E c \in Callers : cid[c] = i
      THEN CHOOSE c \in Callers : cid[c] = i
      ELSE 0
Lookup(tbl, i) == tbl[i]

\* Socket: the table after the connection has died - no entry is left.
StaleTable(tbl) == tbl
ClearedTable(tbl) == [i \in Ids |-> 0]

\* Socket: the callers whose calls are failed when the connection dies -
\* all those with an entry in the table.
FailNone(tbl) == {}
FailedByConnectionLoss(tbl) == {tbl[i] : i \in {j \in Ids : tbl[j] # 0}}

\* ------------------------------------------------------- the terminal client
\* The members of the enumeration Severity, and the value of each.
SeverityMembers ==
    {"Severity.INFORMATION", "Severity.ERROR", "Severity.WARNING"}

ValueOf(member) ==
    CASE member = "Severity.INFORMATION" -> "information"
      [] member = "Severity.ERROR" -> "error"
      [] member = "Severity.WARNING" -> "warning"

\* Severity(value): the member with that value.
MemberOf(value) == CHOOSE member \in SeverityMembers : ValueOf(member) = value

\* Severity.to_textual: `match self.value` with the members as the case
\* patterns.  self.value is the member's string and a member of a plain
\* Enum equals no string, so whichever case matches returns its text and
\* when none does the bare `raise` raises RuntimeError.
ToTextual(member) ==
    LET value == ValueOf(member) IN
      IF value = "Severity.ERROR" THEN "error"
      ELSE IF value = "Severity.WARNING" THEN "warning"
      ELSE IF value = "Severity.INFORMATION" THEN "information"
      ELSE "RuntimeError"

\* Text frames the gateway may write to the client: every ServerMsg, the
\* notification with each severity, and one frame that does not decode.
ServerFrames ==
    {[type |-> t, severity |-> "none", msg |-> ""] :
        t \in ServerMsgTypes \ {"notification"}}
      \cup {[type |-> "notification", severity |-> v,
             msg |-> "failed to return rates"] : v \in Severity}
      \cup {[type |-> "bogus", severity |-> "none", msg |-> ""]}

\* server_msg_adapter.validate_json.
AcceptsAnyFrame(f) == TRUE
ValidatesAsServerMsg(f) == f.type \in ServerMsgTypes

\* The ServerMsg a frame that validates is decoded to; no is its place
\* among the frames received.
ServerMsgOf(f, no) ==
    [no |-> no, type |-> f.type, msg |-> f.msg,
     severity |-> IF f.type = "notification" THEN MemberOf(f.severity)
                  ELSE "none"]

\* The fields of the dataclass State.
StateFields == {"cube", "rates", "conventions", "matrix", "samples"}

\* handle_server_msg: the field of State that a server message of type t
\* is stored in; "none" for a message that is not stored.
FieldOf(t) ==
    CASE t = "rates" -> "rates"
      [] t = "conventions" -> "conventions"
      [] t = "arbitrage_matrix" -> "matrix"
      [] t = "vol_samples" -> "samples"
      [] t = "vola_cube" -> "cube"
      [] OTHER -> "none"

\* dataclasses.replace(s, field=v): a State equal to s but for that field.
Fresh(s, field, v) == [f \in StateFields |-> IF f = field THEN v ELSE 0]
Replace(s, field, v) == [s EXCEPT ![field] = v]

\* update_state: q_state_updates.put_nowait(fn).  The queue is unbounded,
\* so QueueFull is never raised and the update is never dropped.
PutNowaitFull(q, fn) == IF q # << >> THEN q ELSE Append(q, fn)
PutNowait(q, fn) == Append(q, fn)

\* The requests the user interface submits.
UiRequests == {"load_cube", "get_vol_samples"}

\* The except clauses of the loops of ws_async, by the exception caught: a
\* serialisation or decoding error is logged and the loop goes on, any
\* other exception is reported as a toast and the loop is left.  No
\* clause re-raises.
Propagated(kind) == "failed"
Swallowed(kind) ==
    IF kind \in {"serialize", "decode"} THEN "running" ELSE "done"

\* asyncio.TaskGroup: when a task of the group has raised, the tasks that
\* have not finished are cancelled.
NoReaction(raised, pc) == pc
GroupReaction(raised, pc) ==
    IF raised /\ pc \notin Terminal THEN "cancelled" ELSE pc

\* The client after on_mount: connected, nothing received or submitted.
ClientInit ==
    /\ c_ws = "open"
    /\ c_nRecv = 0
    /\ c_nUi = 0
    /\ c_nBeats = 0
    /\ c_q_in = << >>
    /\ c_q_out = << >>
    /\ q_toast = << >>
    /\ toasted = << >>
    /\ shown = << >>
    /\ handled = << >>
    /\ hb = "running"
    /\ c_send = "running"
    /\ c_recv = "running"
    /\ c_log = {}
    /\ c_state = [f \in StateFields |-> 0]
    /\ q_state_updates = << >>

\* ----------------------------------------------- _rpc_call, response bodies
\* The JSON bodies the engine may answer with.  Each of the members result
\* and error is absent, null, or an object; an object under result either
\* validates as the type the caller expects or does not; id is absent,
\* null or a string.
RpcBodies ==
    [result : {"absent", "null", "value", "malformed"},
     error : {"absent", "null", "object"},
     id : {"absent", "null", "string"}]

\* The types _rpc_call is asked to return.
Kls == {"ArbitrageCheck", "VolSampling", "ArbitrageMatrix"}

NoBody == [result |-> "absent", error |-> "absent", id |-> "absent"]

\* RpcResponse.model_validate(js): result, error and id are Optional
\* without a default, so each may be null but none may be missing.
RpcResponseValidates(js) ==
    js.result # "absent" /\ js.error # "absent" /\ js.id # "absent"

\* The RpcResponse a body that validates is decoded to.
RpcResponseOf(js) ==
    [id |-> js.id, error |-> js.error = "object", result |-> js.result,
     value |-> IF js.result = "value" THEN 1 ELSE 0]

\* _rpc_call from js = await response.json() on: the ValidationError of a
\* body that is no RpcResponse leaves the call like any other failure.
RpcCallOutcome(js) ==
    IF RpcResponseValidates(js) THEN RpcOutcome(RpcResponseOf(js))
    ELSE [kind |-> "DecodeError", value |-> 0]

\* No call of _rpc_call is under way.
RpcIdle ==
    /\ rpc_js = NoBody
    /\ rpc_kls = "none"
    /\ rpc_out = Unset

\* ----------------------------------------------------- get_arbitrage_matrix
\* The cubes get_arbitrage_matrix is called with.
MatrixCubes == UNION {[1..n -> 0..MaxExpiries] : n \in 0..MaxTenors}

\* The value of n after the two nested loops: one more for each expiry of
\* each tenor.
RECURSIVE CountTasks(_)
CountTenors(vol) == Len(vol)
CountTasks(vol) ==
    IF vol = << >> THEN 0
    ELSE CountTasks(SubSeq(vol, 1, Len(vol) - 1)) + vol[Len(vol)]

\* What the pricing engine's arbitrage check of a cell returns.
CheckOf(cell) == [arbitrage |-> "none"]

\* The lists of rows (tenor, expiry, arbitrage) a bulk call may return
\* for a cube: any number of rows over its cells, here up to one per cell
\* in dict order, and the same with every cell in arbitrage.
RECURSIVE CellSeq(_)
CellSeq(vol) ==
    IF vol = << >> THEN << >>
    ELSE CellSeq(SubSeq(vol, 1, Len(vol) - 1))
           \o [e \in 1..vol[Len(vol)] |-> <<Len(vol), e>>]

RowLists(vol) ==
    {[i \in 1..k |-> <<CellSeq(vol)[i][1], CellSeq(vol)[i][2], a>>] :
        k \in 0..Len(CellSeq(vol)), a \in {"none", "density"}}

\* get_arbitrage_matrix has not been called.
MatrixIdle ==
    /\ m_bulk = bulk_arbitrage_matrix
    /\ m_vol = << >>
    /\ m_pc = "idle"
    /\ m_task = << >>
    /\ m_calls = << >>
    /\ m_bulkCalls = 0
    /\ m_rows = << >>
    /\ m_Q = << >>
    /\ m_result = << >>

\* ------------------------------------------------------ Handler.vol_sampling
\* The Handlers, one per session, and the argument tuples (t, volCube, ccy,
\* tenor, expiry) vol_sampling is called with.
Handlers == 1..NumHandlers

ArgTuples == {"(t, cube, USD, 1Y, 1Y)", "(t, cube, USD, 1Y, 2Y)"}

\* The key the decorator builds for a call: module and name of the
\* function and str of the arguments, self left out (noself=True).
KeyWithSelf(self, args) == <<"handlervol_sampling", self, args>>
KeyOf(self, args) == <<"handlervol_sampling", args>>

\* SimpleMemoryCache: the entry set with a ttl is deleted ttl after the set.
NeverExpires(age) == FALSE
Expired(age) == age >= vol_sampling_cache_ttl

\* SimpleMemoryCache.get(key): the entries under the key (none or one).
CacheGet(key) == {e \in vs_cache : e.key = key}

NoReturn == [value |-> 0, rpc |-> FALSE]

\* No call of vol_sampling has been made and the cache is empty.
CacheInit ==
    /\ vs_cache = {}
    /\ vs_rpcs = 0
    /\ vs_pc = [h \in Handlers |-> "idle"]
    /\ vs_args = [h \in Handlers |-> "none"]
    /\ vs_val = [h \in Handlers |-> 0]
    /\ vs_ret = [h \in Handlers |-> NoReturn]

\* ------------------------------------------------------------------- db.py
\* INIT_RATE_DATA: the rows of table rate, the js column reduced to its
\* "type" member.
INIT_RATE_DATA ==
    {[currency |-> "EUR", name |-> "ESTR", js |-> "Libor"],
     [currency |-> "EUR", name |-> "ESTR12M", js |-> "Libor"],
     [currency |-> "EUR", name |-> "EURIBOR3M", js |-> "Libor"],
     [currency |-> "EUR", name |-> "ESTR10Y", js |-> "SwapRate"],
     [currency |-> "EUR", name |-> "EURIBOR10Y", js |-> "SwapRate"],
     [currency |-> "USD", name |-> "SOFR", js |-> "Libor"],
     [currency |-> "USD", name |-> "SOFR12M", js |-> "Libor"],
     [currency |-> "USD", name |-> "SOFR10Y", js |-> "SwapRate"]}

INIT_VOL_CONVENTIONS_DATA ==
    {[currency |-> "EUR", libor_rate |-> "ESTR", swap_rate |-> "ESTR10Y",
      boundary_tenor |-> "1Y"],
     [currency |-> "USD", libor_rate |-> "SOFR", swap_rate |-> "SOFR10Y",
      boundary_tenor |-> "1Y"]}

\* The primary keys of the two tables, and the key of a row.
RatePk == {"currency", "name"}

ConventionsPk == {"currency"}

KeyOfRow(row, pk) == [column \in pk |-> row[column]]

\* CREATE TABLE IF NOT EXISTS: an existing table is left as it is.
CreateTableIfNotExists(tables, name) == tables \cup {name}

\* INSERT OR IGNORE: a row whose primary key is already in the table is
\* skipped.
InsertOrReplace(rows, new, pk) ==
    {r \in rows : \A n \in new : KeyOfRow(n, pk) # KeyOfRow(r, pk)} \cup new
InsertOrIgnore(rows, new, pk) ==
    rows \cup {n \in new : \A r \in rows : KeyOfRow(r, pk) # KeyOfRow(n, pk)}

\* UPDATE_CONVENTIONS_QUERY: the rows of the currency get the new values.
UpdateWhereCurrency(rows, ccy, libor, swap_rate, boundary_tenor) ==
    {IF r.currency = ccy
       THEN [currency |-> ccy, libor_rate |-> libor,
             swap_rate |-> swap_rate, boundary_tenor |-> boundary_tenor]
       ELSE r : r \in rows}

\* cursor.rowcount of the update.
RowCount(rows, ccy) == Cardinality({r \in rows : r.currency = ccy})

\* The values update_conventions is called with.
Currencies == {"EUR", "USD", "CHF"}

LiborNames == {"ESTR", "SOFR"}

SwapNames == {"ESTR10Y", "SOFR10Y"}

BoundaryTenors == {"1Y", "2Y"}

\* The database file does not exist yet.
DbIdle ==
    /\ db_tables = {}
    /\ db_rate = {}
    /\ db_conv = {}
    /\ db_inits = 0
    /\ db_last = "none"

\* ----------------------------------------------------------- ArbitrageGrid
\* The periods the tenors and the expiries of a matrix are taken from, each
\* named by its rank in the sorting order.
TenorPeriods == 1..MaxGridTenors

ExpiryPeriods == 1..MaxGridExpiries

\* sorted(list({...})): the distinct periods in increasing order.
RECURSIVE Sorted(_)
Sorted(S) ==
    IF S = {} THEN << >>
    ELSE LET least == CHOOSE x \in S : \A y \in S : x <= y
         IN  <<least>> \o Sorted(S \ {least})

\* list.index(x): the position, counted from 0, of the first x.
Index(list, x) ==
    CHOOSE i \in 0..(Len(list) - 1) :
        /\ list[i + 1] = x
        /\ \A j \in 0..(i - 1) : list[j + 1] # x

\* list[i]: a negative i counts from the end, and an i outside the list
\* raises IndexError.
InRange(list, i) == i >= -Len(list) /\ i < Len(list)

PyGet(list, i) == IF i >= 0 THEN list[i + 1] ELSE list[Len(list) + i + 1]

\* min and max of two integers.
NoMin(a, b) == a
PyMin(a, b) == IF a <= b THEN a ELSE b

PyMax(a, b) == IF a >= b THEN a ELSE b

\* curr_loc of _mv_curr_loc.
CurrLoc == <<Index(g_tenors, g_selected[1]), Index(g_expiries, g_selected[2])>>

\* The functions the eight actions hand to _mv_curr_loc.
cell_next(loc) == <<PyMin(loc[1] + 1, Len(g_tenors) - 1), loc[2]>>

cell_prev(loc) == <<PyMax(loc[1] - 1, 0), loc[2]>>

cell_down(loc) == <<loc[1], PyMin(loc[2] + 1, Len(g_expiries) - 1)>>

cell_up(loc) == <<loc[1], PyMax(loc[2] - 1, 0)>>

start_of_row(loc) == <<0, loc[2]>>

end_of_row(loc) == <<Len(g_tenors) - 1, loc[2]>>

start_of_col(loc) == <<loc[1], 0>>

end_of_col(loc) == <<loc[1], Len(g_expiries) - 1>>

\* No matrix has arrived: the grid is empty and nothing is selected.
GridIdle ==
    /\ g_tenors = << >>
    /\ g_expiries = << >>
    /\ g_selected = << >>
    /\ g_raised = FALSE
    /\ g_last = "none"

\* A matrix has arrived and one of its pairs is selected.
GridInit ==
    /\ \E T \in SUBSET TenorPeriods \ {{}} : g_tenors = Sorted(T)
    /\ \E E \in SUBSET ExpiryPeriods \ {{}} : g_expiries = Sorted(E)
    /\ \E i \in 1..Len(g_tenors), j \in 1..Len(g_expiries) :
          g_selected = <<g_tenors[i], g_expiries[j]>>
    /\ g_raised = FALSE
    /\ g_last = "none"

\* websocket_endpoint up to the creation of its three tasks.  The Handler
\* that handle_client_msg_loop constructs is taken to be constructed.
SessionInit ==
    /\ ws = "open"
    /\ net = << >>
    /\ nSent = 0
    /\ nFaults = 0
    /\ q_in = << >>
    /\ q_out = << >>
    /\ recv = "running"
    /\ send = "waiting"
    /\ sendMsg = << >>
    /\ disp = "idle"
    /\ cur = NoMsg
    /\ wire = << >>
    /\ enq = << >>
    /\ endpoint = "running"
    /\ reqs = [i \in 1..MaxFrames |-> NoReq]
    /\ log = {}

\* Socket after construction, the setting being ceiling: no call, an empty
\* table, every permit free, the connection up.
MuxInit(ceiling) ==
    /\ cst = [c \in Callers |-> "idle"]
    /\ cid = [c \in Callers |-> 0]
    /\ fut = [c \in Callers |-> Unset]
    /\ result = [c \in Callers |-> Unset]
    /\ usedIds = {}
    /\ pending = [i \in Ids |-> 0]
    /\ max_requests_in_flight = ceiling
    /\ sem = ceiling
    /\ chanReq = {}
    /\ chanRsp = {}
    /\ connOpen = TRUE
    /\ discarded = {}

Init ==
    /\ SessionInit
    /\ MuxInit(MaxCeiling)
    /\ ClientInit
    /\ RpcIdle
    /\ MatrixIdle
    /\ CacheInit /\ DbIdle /\ GridIdle

\* ------------------------------------------------------------ environment
\* The UI client writes one more JSON frame (it writes the next one once
\* the gateway's transport has taken the previous one).
ClientSend ==
    /\ ws = "open"
    /\ nSent < MaxFrames
    /\ net = << >>
    /\ \E js \in WireFrames :
         net' = Append(net, [no |-> nSent + 1, js |-> js])
    /\ nSent' = nSent + 1
    /\ UNCHANGED <<nFaults, ws, q_in, q_out, enq, recv, send, sendMsg,
                   disp, cur, wire, endpoint, reqs, log>>
    /\ UNCHANGED outsideSession

\* The UI client closes the connection, or the connection breaks.
PeerDisconnect ==
    /\ ws = "open"
    /\ ws' = "peer_closed"
    /\ UNCHANGED <<nFaults, net, nSent, q_in, q_out, recv, send,
                   sendMsg, disp, cur, wire, enq, endpoint, reqs, log>>
    /\ UNCHANGED outsideSession

\* -------------------------------------------------------------- recv_loop
\* One iteration of `async for js in ws.iter_json()`.
\*  - the frame is not JSON: receive_json raises out of iter_json, which the
\*    last except clause logs and re-raises;
\*  - it does not validate: the try block encloses the whole loop, so the
\*    ValidationError leaves the loop, is logged, and recv_loop returns;
\*  - otherwise the message is put on q_in.
RecvMsg ==
    /\ recv = "running"
    /\ net # << >>
    /\ LET f == Head(net) IN
         IF ~f.js.json
           THEN /\ recv' = "failed"
                /\ log' = log \cup {"exception in receive loop"}
                /\ UNCHANGED q_in
           ELSE IF ValidatesAsClientMsg(f.js)
           THEN /\ q_in' = QueuePut(q_in, [no |-> f.no, type |-> f.js.type])
                /\ UNCHANGED <<recv, log>>
           ELSE /\ recv' = "done"
                /\ log' = log \cup {"failed to decode client message",
                                     ValidationErrorOf(f.js)}
                /\ UNCHANGED q_in
    /\ net' = Tail(net)
    /\ UNCHANGED <<nFaults, ws, nSent, q_out, enq, send,
                   sendMsg, disp, cur, wire, endpoint, reqs>>
    /\ UNCHANGED outsideSession

\* The peer has gone and every frame it wrote has been read.  starlette's
\* WebSocket.iter_json catches WebSocketDisconnect and ends the iteration,
\* so the `async for` finishes and recv_loop returns normally.
RecvDisconnect ==
    /\ recv = "running"
    /\ ws = "peer_closed"
    /\ net = << >>
    /\ recv' = "done"
    /\ UNCHANGED <<nFaults, ws, net, nSent, q_in, q_out, enq,
                   send, sendMsg, disp, cur, wire, endpoint, reqs, log>>
    /\ UNCHANGED outsideSession

\* -------------------------------------------------------------- send_loop
\* msg = await q_out.get()
SendGet ==
    /\ send = "waiting"
    /\ q_out # << >>
    /\ sendMsg' = <<QueueGet(q_out)[1]>>
    /\ q_out' = QueueGet(q_out)[2]
    /\ send' = "sending"
    /\ UNCHANGED <<nFaults, ws, net, nSent, q_in, recv, disp, cur,
                   wire, enq, endpoint, reqs, log>>
    /\ UNCHANGED outsideSession

\* await ws.send_json(...) completes.
SendWrite ==
    /\ send = "sending"
    /\ ws = "open"
    /\ wire' = Append(wire, sendMsg[1])
    /\ sendMsg' = << >>
    /\ send' = "waiting"
    /\ UNCHANGED <<nFaults, ws, net, nSent, q_in, q_out, enq, recv, disp,
                   cur, endpoint, reqs, log>>
    /\ UNCHANGED outsideSession

\* await ws.send_json(...) raises because the connection is gone: logged
\* and re-raised.
SendFail ==
    /\ send = "sending"
    /\ ws # "open"
    /\ send' = "failed"
    /\ log' = log \cup {"exception in send loop"}
    /\ UNCHANGED <<nFaults, ws, net, nSent, q_in, q_out, enq, recv,
                   sendMsg, disp, cur, wire, endpoint, reqs>>
    /\ UNCHANGED outsideSession

\* ------------------------------------------------- handle_client_msg_loop
\* The envelope a successful Get* request puts on q_out.
ReplyType(t) ==
    CASE t = "get_conventions" -> "conventions"
      [] t = "get_rates" -> "rates"
      [] t = "get_arbitrage_matrix" -> "arbitrage_matrix"
      [] t = "get_arbitrage_check" -> "arbitrage_check"
      [] t = "get_vol_samples" -> "vol_samples"

\* What the except clause of a Get* request writes with logger.exception.
GetFailureLog(t) ==
    CASE t = "get_conventions" -> "failed to handle conventions request"
      [] t = "get_rates" -> "failed to handle rates request"
      [] t = "get_arbitrage_matrix" -> "failed to handle full arbitrage request"
      [] t = "get_arbitrage_check" -> "failed to handle arbitrage request"
      [] t = "get_vol_samples" -> "failed to handle vol samples request"

\* The outcomes get_arbitrage_matrix can have for a cube.  Cell by cell it
\* creates one task per cell and fails iff one of them fails, so without
\* cells nothing can fail; in bulk it is one RPC call.
MatrixOutcomes(bulk, vol) ==
    IF ~bulk /\ Cells(vol) = {} THEN {"ok"} ELSE {"ok", "fail"}

\* A file load, a storage lookup or an RPC call fails.
Fault ==
    /\ nFaults < MaxFaults
    /\ nFaults' = nFaults + 1

NoFault == UNCHANGED nFaults

\* except Exception: around a lookup or an RPC call of handle_client_msg:
\* the exception goes no further and the handler continues at next.
Uncaught(next) == "done"
Caught(next) == next

\* handle_client_msg_loop awaits handle_client_msg before it gets the next
\* message from q_in: a message is taken only when no handler is under way.
Spawned(pc) == pc \notin Terminal
Awaited(pc) == pc = "idle"

\* msg = await q_in.get() with a Ping at the head: handle_client_msg puts a
\* Pong and returns without suspending.
HandlePing ==
    /\ Awaited(disp)
    /\ q_in # << >>
    /\ LET m == QueueGet(q_in)[1] IN
         /\ m.type = "ping"
         /\ Put(<< <<"pong", "none", "", m.no>> >>)
         /\ reqs' = [reqs EXCEPT ![m.no] =
                        [type |-> m.type, state |-> "returned",
                         loaded |-> FALSE, failed |-> {}]]
    /\ q_in' = QueueGet(q_in)[2]
    /\ log' = log \cup {"ping received"}
    /\ UNCHANGED <<nFaults, ws, net, nSent, recv, send, sendMsg,
                   disp, cur, endpoint>>
    /\ UNCHANGED outsideSession

\* msg = await q_in.get() with a LoadCube at the head: the file is opened
\* and validated synchronously.  A failure puts one error notification and
\* the handler returns; otherwise VolaCube is put and the handler suspends
\* in get_conventions.
HandleLoadCube ==
    /\ Awaited(disp)
    /\ q_in # << >>
    /\ LET m == QueueGet(q_in)[1] IN
         /\ m.type = "load_cube"
         /\ \/ \E e \in {"failed to validate json", "failed to decode json",
                          "failed to load"} :
                 /\ Fault
                 /\ LogNotifyError(e, m.no)
                 /\ reqs' = [reqs EXCEPT ![m.no] =
                                [type |-> m.type, state |-> "returned",
                                 loaded |-> FALSE, failed |-> {"load"}]]
                 /\ UNCHANGED <<disp, cur>>
            \/ \E vol \in Cubes :
                 /\ Put(<< <<"vola_cube", "none", "", m.no>> >>)
                 /\ reqs' = [reqs EXCEPT ![m.no] =
                                [type |-> m.type, state |-> "handling",
                                 loaded |-> TRUE, failed |-> {}]]
                 /\ cur' = [no |-> m.no, type |-> m.type, vol |-> vol]
                 /\ disp' = "conventions"
                 /\ UNCHANGED log
                 /\ NoFault
    /\ q_in' = QueueGet(q_in)[2]
    /\ UNCHANGED <<ws, net, nSent, recv, send, sendMsg,
                   endpoint>>
    /\ UNCHANGED outsideSession

\* LoadCube, first sub-step: get_conventions(ccy), then put its result or
\* one error notification.
LoadCubeConventions ==
    /\ disp = "conventions"
    /\ \/ /\ Put(<< <<"conventions", "none", "", cur.no>> >>)
          /\ NoFault
          /\ disp' = "rates"
          /\ UNCHANGED <<reqs, log>>
       \/ /\ Fault
          /\ LogNotifyError("failed to return conventions", cur.no)
          /\ reqs' = [reqs EXCEPT ![cur.no].failed = @ \cup {"conventions"}]
          /\ disp' = Caught("rates")
    /\ UNCHANGED <<ws, net, nSent, q_in, recv, send,
                   sendMsg, cur, endpoint>>
    /\ UNCHANGED outsideSession

\* LoadCube, second sub-step: get_rates(ccy).
LoadCubeRates ==
    /\ disp = "rates"
    /\ \/ /\ Put(<< <<"rates", "none", "", cur.no>> >>)
          /\ NoFault
          /\ disp' = "matrix"
          /\ UNCHANGED <<reqs, log>>
       \/ /\ Fault
          /\ LogNotifyError("failed to return rates", cur.no)
          /\ reqs' = [reqs EXCEPT ![cur.no].failed = @ \cup {"rates"}]
          /\ disp' = Caught("matrix")
    /\ UNCHANGED <<ws, net, nSent, q_in, recv, send,
                   sendMsg, cur, endpoint>>
    /\ UNCHANGED outsideSession

\* LoadCube, third sub-step: get_arbitrage_matrix, then ArbitrageMatrix and
\* the information notification, or one error notification.  The code goes
\* straight on to pick the cube's first tenor and expiry, outside any try:
\* on a cube without one the IndexError leaves handle_client_msg and is
\* caught by handle_client_msg_loop outside its while loop, which logs it
\* and returns.
LoadCubeMatrix ==
    /\ disp = "matrix"
    /\ \E o \in MatrixOutcomes(bulk_arbitrage_matrix, cur.vol) :
         /\ IF o = "ok"
              THEN /\ NoFault
                   /\ Put(<< <<"arbitrage_matrix", "none", "", cur.no>>,
                             <<"notification", "information",
                               "Arbitrage matrix constructed", cur.no>> >>)
              ELSE /\ Fault
                   /\ Put(<< <<"notification", "error",
                               "failed to return arbitrage matrix",
                               cur.no>> >>)
         /\ reqs' = [reqs EXCEPT
                       ![cur.no].failed =
                          IF o = "ok" THEN @ ELSE @ \cup {"arbitrage_matrix"},
                       ![cur.no].state =
                          IF FirstCellRaises(cur.vol) THEN "raised" ELSE @]
         /\ log' = log
                     \cup (IF o = "ok" THEN {}
                           ELSE {"failed to return arbitrage matrix"})
                     \cup (IF FirstCellRaises(cur.vol)
                           THEN {"exception in handling client message"}
                           ELSE {})
         /\ disp' = IF FirstCellRaises(cur.vol) THEN "done"
                    ELSE IF o = "ok" THEN "samples" ELSE Caught("samples")
    /\ UNCHANGED <<ws, net, nSent, q_in, recv, send, sendMsg, cur,
                   endpoint>>
    /\ UNCHANGED outsideSession

\* LoadCube, fourth sub-step: get_vol_sampling for the first cell.
LoadCubeSamples ==
    /\ disp = "samples"
    /\ \/ /\ Put(<< <<"vol_samples", "none", "", cur.no>> >>)
          /\ reqs' = [reqs EXCEPT ![cur.no].state = "returned"]
          /\ NoFault
          /\ disp' = "idle"
          /\ UNCHANGED log
       \/ /\ Fault
          /\ LogNotifyError("failed to return sampled data", cur.no)
          /\ reqs' = [reqs EXCEPT ![cur.no].failed = @ \cup {"vol_samples"},
                                  ![cur.no].state = "returned"]
          /\ disp' = Caught("idle")
    /\ UNCHANGED <<ws, net, nSent, q_in, recv, send,
                   sendMsg, cur, endpoint>>
    /\ UNCHANGED outsideSession

\* msg = await q_in.get() with one of the five Get* requests at the head:
\* the handler suspends in its storage lookup or RPC call.
HandleGet ==
    /\ Awaited(disp)
    /\ q_in # << >>
    /\ LET m == QueueGet(q_in)[1] IN
         /\ m.type \notin {"ping", "load_cube"}
         /\ \E vol \in Cubes :
              cur' = [no |-> m.no, type |-> m.type,
                      vol |-> IF m.type = "get_arbitrage_matrix"
                                   /\ ~bulk_arbitrage_matrix
                              THEN vol ELSE << >>]
         /\ reqs' = [reqs EXCEPT ![m.no] =
                        [type |-> m.type, state |-> "handling",
                         loaded |-> FALSE, failed |-> {}]]
    /\ q_in' = QueueGet(q_in)[2]
    /\ disp' = "get"
    /\ UNCHANGED <<nFaults, ws, net, nSent, q_out, enq, recv, send,
                   sendMsg, wire, endpoint, log>>
    /\ UNCHANGED outsideSession

\* The lookup or RPC call of a Get* request returns: its result is put on
\* q_out.  Or it raises: the except clause logs the failure, and that is all.
HandleGetFinish ==
    /\ disp = "get"
    /\ \/ /\ Put(<< <<ReplyType(cur.type), "none", "", cur.no>> >>)
          /\ reqs' = [reqs EXCEPT ![cur.no].state = "returned"]
          /\ NoFault
          /\ disp' = "idle"
          /\ UNCHANGED log
       \/ /\ Fault
          /\ cur.type = "get_arbitrage_matrix"
               => "fail" \in MatrixOutcomes(bulk_arbitrage_matrix, cur.vol)
          /\ log' = log \cup {GetFailureLog(cur.type)}
          /\ reqs' = [reqs EXCEPT ![cur.no].state = "returned",
                                  ![cur.no].failed = {ReplyType(cur.type)}]
          /\ disp' = Caught("idle")
          /\ UNCHANGED <<q_out, enq, wire>>
    /\ UNCHANGED <<ws, net, nSent, q_in, recv, send,
                   sendMsg, cur, endpoint>>
    /\ UNCHANGED outsideSession

\* -------------------------------------------------------------- TaskGroup
\* A task that has not finished is cancelled: CancelledError is thrown into
\* it at the await it is suspended in, and none of the loops catches it.
KeepsRunning(pc) == pc
Cancelled(pc) == IF pc \in Terminal THEN pc ELSE "cancelled"

\* A task of the group raised: the group cancels the other tasks and waits
\* for them.
TaskGroupAbort ==
    /\ endpoint = "running"
    /\ send = "failed" \/ recv = "failed"
    /\ send' = Cancelled(send)
    /\ recv' = Cancelled(recv)
    /\ disp' = Cancelled(disp)
    /\ endpoint' = "aborting"
    /\ UNCHANGED <<nFaults, ws, net, nSent, q_in, q_out, enq, sendMsg,
                   cur, wire, reqs, log>>
    /\ UNCHANGED outsideSession

\* except* Exception: the group's exceptions are logged, the websocket is
\* closed and websocket_endpoint returns.
EndpointClose ==
    /\ endpoint = "aborting"
    /\ ws' = "closed"
    /\ log' = log \cup {"ws connection exception in task group"}
    /\ endpoint' = "returned"
    /\ UNCHANGED <<nFaults, net, nSent, q_in, q_out, enq, recv, send,
                   sendMsg, disp, cur, wire, reqs>>
    /\ UNCHANGED outsideSession

\* ------------------------------------------- Handler._rpc_call, Socket.call
Pending == [kind |-> "pending", value |-> 0]

Failure(kind) == [kind |-> kind, value |-> 0]

\* Handler._rpc_call: the request is built, with a fresh identifier, and
\* handed to socket.call.
Issue(c) ==
    /\ cst[c] = "idle"
    /\ \E i \in FreshId(usedIds) :
         /\ cid' = [cid EXCEPT ![c] = i]
         /\ usedIds' = usedIds \cup {i}
    /\ cst' = [cst EXCEPT ![c] = "issued"]
    /\ UNCHANGED <<max_requests_in_flight, fut, result, pending, sem, chanReq,
                   chanRsp, connOpen, discarded>>
    /\ UNCHANGED outsideMux

\* Socket.call: the call is admitted when fewer than the ceiling are
\* outstanding; until then the caller is blocked on the semaphore.
Acquire(c) ==
    /\ cst[c] = "issued"
    /\ CanAcquire(sem)
    /\ sem' = sem - 1
    /\ cst' = [cst EXCEPT ![c] = "admitted"]
    /\ UNCHANGED <<max_requests_in_flight, cid, fut, result, usedIds, pending,
                   chanReq, chanRsp, connOpen, discarded>>
    /\ UNCHANGED outsideMux

\* Socket.call: the admitted call is entered in the pending-call table.
Register(c) ==
    /\ cst[c] = "admitted"
    /\ pending' = [pending EXCEPT ![cid[c]] = c]
    /\ fut' = [fut EXCEPT ![c] = Pending]
    /\ cst' = [cst EXCEPT ![c] = "registered"]
    /\ UNCHANGED <<max_requests_in_flight, cid, result, usedIds, sem, chanReq,
                   chanRsp, connOpen, discarded>>
    /\ UNCHANGED outsideMux

\* Socket.call: the request is written to the connection as one unit.  On a
\* dead connection the write fails: the entry is removed, the permit given
\* back and the call fails with ConnectionLost.
Write(c) ==
    /\ ReadyToWrite(cst[c])
    /\ IF connOpen
         THEN /\ chanReq' = chanReq \cup {[id |-> cid[c], params |-> Params(c)]}
              /\ cst' = [cst EXCEPT ![c] = "awaiting"]
              /\ UNCHANGED <<fut, result, pending, sem>>
         ELSE /\ pending' = RemoveEntry(pending, cid[c])
              /\ fut' = [fut EXCEPT ![c] = Failure("ConnectionLost")]
              /\ result' = [result EXCEPT ![c] = Failure("ConnectionLost")]
              /\ sem' = Release(sem)
              /\ cst' = [cst EXCEPT ![c] = "done"]
              /\ UNCHANGED chanReq
    /\ UNCHANGED <<max_requests_in_flight, cid, usedIds, chanRsp, connOpen,
                   discarded>>
    /\ UNCHANGED outsideMux

\* Socket.call: the result slot has been fulfilled; the caller gives its
\* permit back and returns the result or raises the failure.
Return(c) ==
    /\ cst[c] = "awaiting"
    /\ fut[c] # Pending
    /\ result' = [result EXCEPT ![c] = fut[c]]
    /\ sem' = Release(sem)
    /\ cst' = [cst EXCEPT ![c] = "done"]
    /\ UNCHANGED <<max_requests_in_flight, cid, fut, usedIds, pending, chanReq,
                   chanRsp, connOpen, discarded>>
    /\ UNCHANGED outsideMux

\* Socket.call: the deadline elapses before the slot is fulfilled; the
\* entry is removed, the permit given back and the call fails with Timeout.
Timeout(c) ==
    /\ cst[c] = "awaiting"
    /\ fut[c] = Pending
    /\ pending' = RemoveEntry(pending, cid[c])
    /\ fut' = [fut EXCEPT ![c] = Failure("Timeout")]
    /\ result' = [result EXCEPT ![c] = Failure("Timeout")]
    /\ sem' = Release(sem)
    /\ cst' = [cst EXCEPT ![c] = "done"]
    /\ UNCHANGED <<max_requests_in_flight, cid, usedIds, chanReq, chanRsp,
                   connOpen, discarded>>
    /\ UNCHANGED outsideMux

\* The pricing engine answers one of the requests it has received, in any
\* order, with a result, an error, or a unit that is neither.
EngineRespond ==
    /\ connOpen
    /\ \E rq \in chanReq :
         /\ chanReq' = chanReq \ {rq}
         /\ \E rsp \in Responses(rq) : chanRsp' = chanRsp \cup {rsp}
    /\ UNCHANGED <<max_requests_in_flight, cst, cid, fut, result, usedIds,
                   pending, sem, connOpen, discarded>>
    /\ UNCHANGED outsideMux

\* Socket's demultiplexing loop reads one response and looks its identifier
\* up in the table: on a match the call's slot is fulfilled and the entry
\* removed, on a miss the response is logged and discarded.
DemuxRead ==
    /\ connOpen
    /\ \E rsp \in chanRsp :
         /\ chanRsp' = chanRsp \ {rsp}
         /\ IF Lookup(pending, rsp.id) # 0
              THEN /\ fut' = [fut EXCEPT
                                ![Lookup(pending, rsp.id)] = RpcOutcome(rsp)]
                   /\ pending' = RemoveEntry(pending, rsp.id)
                   /\ UNCHANGED discarded
              ELSE /\ discarded' = discarded \cup {rsp}
                   /\ UNCHANGED <<fut, pending>>
    /\ UNCHANGED <<max_requests_in_flight, cst, cid, result, usedIds, sem,
                   chanReq, connOpen>>
    /\ UNCHANGED outsideMux

\* The connection closes or errors under the demultiplexing loop's read:
\* every call in the table is failed with ConnectionLost and the table
\* emptied; what was in flight is lost.
ConnectionLost ==
    /\ connOpen
    /\ connOpen' = FALSE
    /\ fut' = [c \in Callers |->
                 IF c \in FailedByConnectionLoss(pending)
                 THEN Failure("ConnectionLost") ELSE fut[c]]
    /\ pending' = ClearedTable(pending)
    /\ chanReq' = {}
    /\ chanRsp' = {}
    /\ UNCHANGED <<max_requests_in_flight, cst, cid, result, usedIds, sem,
                   discarded>>
    /\ UNCHANGED outsideMux

Call(c) == Acquire(c) \/ Register(c) \/ Write(c) \/ Return(c)

MuxNext ==
    \/ \E c \in Callers : Issue(c)
    \/ \E c \in Callers : Call(c)
    \/ \E c \in Callers : Timeout(c)
    \/ EngineRespond
    \/ DemuxRead
    \/ ConnectionLost

\* The setting is read from the environment when the gateway starts.
MuxSpecInit ==
    /\ SessionInit
    /\ \E ceiling \in 1..MaxCeiling : MuxInit(ceiling)
    /\ ClientInit
    /\ RpcIdle
    /\ MatrixIdle
    /\ CacheInit /\ DbIdle /\ GridIdle

MuxSpec == MuxSpecInit /\ [][MuxNext]_vars

\* The steps the event loop takes by itself: a caller that can go on, a
\* deadline that elapses, the demultiplexing loop.
EventLoop ==
    \/ \E c \in Callers : Call(c) \/ Timeout(c)
    \/ DemuxRead

\* The event loop does not stop while one of its tasks can take a step.
\* The engine and the callers' issuing of calls are under no obligation.
MuxFairSpec == MuxSpec /\ WF_vars(EventLoop)

\* The engine sends once more the answer that a call has been returned:
\* a duplicate.  At most one per identifier.
EngineResend ==
    /\ connOpen
    /\ \E c \in Callers :
         /\ cst[c] = "done"
         /\ result[c].kind = "ok"
         /\ \A rsp \in chanRsp \cup discarded : rsp.id # cid[c]
         /\ chanRsp' = chanRsp \cup {[id |-> cid[c], error |-> FALSE,
                                       result |-> "value",
                                       value |-> result[c].value]}
    /\ UNCHANGED <<max_requests_in_flight, cst, cid, fut, result, usedIds,
                   pending, sem, chanReq, connOpen, discarded>>
    /\ UNCHANGED outsideMux

\* The RPC path with an engine that may answer a request twice.
MuxDupSpec == MuxSpecInit /\ [][MuxNext \/ EngineResend]_vars

\* ---------------------------------------------------------- specification
RecvLoop == RecvMsg \/ RecvDisconnect

SendLoop == SendGet \/ SendWrite \/ SendFail

HandleClientMsgLoop ==
    \/ HandlePing
    \/ HandleLoadCube
    \/ LoadCubeConventions
    \/ LoadCubeRates
    \/ LoadCubeMatrix
    \/ LoadCubeSamples
    \/ HandleGet
    \/ HandleGetFinish

TaskGroup == TaskGroupAbort \/ EndpointClose

Environment == ClientSend \/ PeerDisconnect

Next == Environment \/ RecvLoop \/ SendLoop \/ HandleClientMsgLoop \/ TaskGroup

Spec == Init /\ [][Next]_vars

\* The event loop runs every task that can take a step; the environment
\* (the client, the network) is under no obligation.
FairSpec ==
    /\ Spec
    /\ WF_vars(RecvLoop)
    /\ WF_vars(SendLoop)
    /\ WF_vars(HandleClientMsgLoop)
    /\ WF_vars(TaskGroup)

\* ------------------------------------------------------------------ RpcSpec
\* The response has been read; _rpc_call returns or raises.
RpcCall ==
    /\ rpc_out = Unset
    /\ rpc_out' = RpcCallOutcome(rpc_js)
    /\ UNCHANGED <<rpc_js, rpc_kls>>
    /\ UNCHANGED outsideRpc

RpcSpecInit ==
    /\ SessionInit
    /\ MuxInit(MaxCeiling)
    /\ ClientInit
    /\ MatrixIdle
    /\ CacheInit /\ DbIdle /\ GridIdle
    /\ rpc_js \in RpcBodies
    /\ rpc_kls \in Kls
    /\ rpc_out = Unset

RpcSpec == RpcSpecInit /\ [][RpcCall]_vars

\* --------------------------------------------------------------- MatrixSpec
\* get_arbitrage_matrix is called with a cube, the setting being either way.
MatrixInit ==
    /\ m_bulk \in BOOLEAN
    /\ m_vol \in MatrixCubes
    /\ m_pc = "start"
    /\ m_task = [c \in Cells(m_vol) |-> "none"]
    /\ m_calls = [c \in Cells(m_vol) |-> 0]
    /\ m_bulkCalls = 0
    /\ m_rows = << >>
    /\ m_Q = << >>
    /\ m_result = << >>

\* Cell by cell: the two nested loops create one task per cell inside the
\* TaskGroup; none of them runs before the group is awaited.
MatrixCreateTasks ==
    /\ m_pc = "start"
    /\ ~m_bulk
    /\ m_task' = [c \in Cells(m_vol) |-> "created"]
    /\ m_pc' = "joining"
    /\ UNCHANGED <<m_bulk, m_vol, m_calls, m_bulkCalls, m_rows, m_Q, m_result>>
    /\ UNCHANGED outsideMatrix

\* impl(tenor, expiry) starts: it issues handler.arbitrage_check.
MatrixTaskCall(c) ==
    /\ m_pc = "joining"
    /\ m_task[c] = "created"
    /\ m_task' = [m_task EXCEPT ![c] = "calling"]
    /\ m_calls' = [m_calls EXCEPT ![c] = @ + 1]
    /\ UNCHANGED <<m_bulk, m_vol, m_pc, m_bulkCalls, m_rows, m_Q, m_result>>
    /\ UNCHANGED outsideMatrix

\* The check returns and impl puts (tenor, expiry, check) on Q.
MatrixTaskDone(c) ==
    /\ m_pc = "joining"
    /\ m_task[c] = "calling"
    /\ m_task' = [m_task EXCEPT ![c] = "done"]
    /\ m_Q' = QueuePut(m_Q, [tenor |-> c[1], expiry |-> c[2],
                             check |-> CheckOf(c)])
    /\ UNCHANGED <<m_bulk, m_vol, m_pc, m_calls, m_bulkCalls, m_rows,
                   m_result>>
    /\ UNCHANGED outsideMatrix

\* The check raises: the TaskGroup cancels the tasks that have not
\* finished and raises the group of exceptions out of get_arbitrage_matrix.
MatrixTaskFail(c) ==
    /\ m_pc = "joining"
    /\ m_task[c] = "calling"
    /\ m_task' = [d \in Cells(m_vol) |->
                    IF d = c THEN "failed"
                    ELSE GroupReaction(TRUE, m_task[d])]
    /\ m_pc' = "raised"
    /\ UNCHANGED <<m_bulk, m_vol, m_calls, m_bulkCalls, m_rows, m_Q, m_result>>
    /\ UNCHANGED outsideMatrix

\* Every task has finished: the TaskGroup is left and the first n items
\* of Q are returned.
MatrixJoin ==
    /\ m_pc = "joining"
    /\ \A c \in Cells(m_vol) : m_task[c] = "done"
    /\ IF CountTasks(m_vol) <= Len(m_Q)
         THEN /\ m_result' = SubSeq(m_Q, 1, CountTasks(m_vol))
              /\ m_Q' = SubSeq(m_Q, CountTasks(m_vol) + 1, Len(m_Q))
              /\ m_pc' = "returned"
         ELSE /\ m_pc' = "raised"
              /\ m_result' = m_result
              /\ m_Q' = << >>
    /\ UNCHANGED <<m_bulk, m_vol, m_task, m_calls, m_bulkCalls, m_rows>>
    /\ UNCHANGED outsideMatrix

\* In bulk: handler.arbitrage_matrix is called, once.
MatrixBulkCall ==
    /\ m_pc = "start"
    /\ m_bulk
    /\ m_bulkCalls' = m_bulkCalls + 1
    /\ m_pc' = "calling"
    /\ UNCHANGED <<m_bulk, m_vol, m_task, m_calls, m_rows, m_Q, m_result>>
    /\ UNCHANGED outsideMatrix

\* The bulk call returns rsp: each row (t, e, a) of rsp.matrix becomes
\* (t, e, ArbitrageCheck(arbitrage=a)).  Or it raises.
MatrixBulkDone ==
    /\ m_pc = "calling"
    /\ \/ \E rows \in RowLists(m_vol) :
            /\ m_rows' = rows
            /\ m_result' = [i \in 1..Len(rows) |->
                              [tenor |-> rows[i][1], expiry |-> rows[i][2],
                               check |-> [arbitrage |-> rows[i][3]]]]
            /\ m_pc' = "returned"
       \/ /\ m_pc' = "raised"
          /\ UNCHANGED <<m_rows, m_result>>
    /\ UNCHANGED <<m_bulk, m_vol, m_task, m_calls, m_bulkCalls, m_Q>>
    /\ UNCHANGED outsideMatrix

MatrixNext ==
    \/ MatrixCreateTasks
    \/ \E c \in Cells(m_vol) :
         MatrixTaskCall(c) \/ MatrixTaskDone(c) \/ MatrixTaskFail(c)
    \/ MatrixJoin
    \/ MatrixBulkCall
    \/ MatrixBulkDone

MatrixSpecInit ==
    /\ SessionInit
    /\ MuxInit(MaxCeiling)
    /\ ClientInit
    /\ RpcIdle
    /\ MatrixInit
    /\ CacheInit /\ DbIdle /\ GridIdle

MatrixSpec == MatrixSpecInit /\ [][MatrixNext]_vars

\* ---------------------------------------------------------------- CacheSpec
\* vol_sampling is called: the decorator looks the key up.  On a hit the
\* cached value is returned; on a miss the function body runs and issues
\* its RPC call.
VsCall(h, args) ==
    /\ vs_pc[h] # "calling"
    /\ vs_args' = [vs_args EXCEPT ![h] = args]
    /\ IF CacheGet(KeyOf(h, args)) # {}
         THEN /\ \E e \in CacheGet(KeyOf(h, args)) :
                   vs_ret' = [vs_ret EXCEPT
                                ![h] = [value |-> e.value, rpc |-> FALSE]]
              /\ vs_pc' = [vs_pc EXCEPT ![h] = "returned"]
              /\ UNCHANGED <<vs_rpcs, vs_val>>
         ELSE /\ vs_rpcs < MaxSamplings
              /\ vs_rpcs' = vs_rpcs + 1
              /\ vs_val' = [vs_val EXCEPT ![h] = vs_rpcs + 1]
              /\ vs_pc' = [vs_pc EXCEPT ![h] = "calling"]
              /\ UNCHANGED vs_ret
    /\ UNCHANGED vs_cache
    /\ UNCHANGED outsideCache

\* The RPC call returns: the decorator sets the result under the key with
\* the ttl, replacing an entry already there, and returns it.
VsReturn(h) ==
    /\ vs_pc[h] = "calling"
    /\ vs_cache' = (vs_cache \ CacheGet(KeyOf(h, vs_args[h])))
                      \cup {[key |-> KeyOf(h, vs_args[h]),
                              args |-> vs_args[h],
                              value |-> vs_val[h], age |-> 0]}
    /\ vs_ret' = [vs_ret EXCEPT ![h] = [value |-> vs_val[h], rpc |-> TRUE]]
    /\ vs_pc' = [vs_pc EXCEPT ![h] = "returned"]
    /\ UNCHANGED <<vs_rpcs, vs_args, vs_val>>
    /\ UNCHANGED outsideCache

\* The RPC call raises: nothing is set and the exception leaves
\* vol_sampling.
VsRaise(h) ==
    /\ vs_pc[h] = "calling"
    /\ vs_pc' = [vs_pc EXCEPT ![h] = "raised"]
    /\ vs_ret' = [vs_ret EXCEPT ![h] = NoReturn]
    /\ UNCHANGED <<vs_cache, vs_rpcs, vs_args, vs_val>>
    /\ UNCHANGED outsideCache

\* One tick of the clock: every entry is a tick older and those whose ttl
\* has elapsed are deleted.
VsTick ==
    /\ vs_cache # {}
    /\ vs_cache' = {[e EXCEPT !.age = e.age + 1] :
                      e \in {d \in vs_cache : ~Expired(d.age + 1)}}
    /\ UNCHANGED <<vs_rpcs, vs_pc, vs_args, vs_val, vs_ret>>
    /\ UNCHANGED outsideCache

CacheNext ==
    \/ \E h \in Handlers, args \in ArgTuples : VsCall(h, args)
    \/ \E h \in Handlers : VsReturn(h)
    \/ \E h \in Handlers : VsRaise(h)
    \/ VsTick

CacheSpecInit ==
    /\ SessionInit
    /\ MuxInit(MaxCeiling)
    /\ ClientInit
    /\ RpcIdle
    /\ MatrixIdle
    /\ CacheInit /\ DbIdle /\ GridIdle

CacheSpec == CacheSpecInit /\ [][CacheNext]_vars

\* ------------------------------------------------------------------- DbSpec
\* init_db, run by the server for every connection: INIT_DB_QUERY as one
\* script, then the commit.
InitDb ==
    /\ db_inits < MaxInits
    /\ db_inits' = db_inits + 1
    /\ db_tables' = CreateTableIfNotExists(
                        CreateTableIfNotExists(db_tables, "rate"),
                        "vol_conventions")
    /\ db_rate' = InsertOrIgnore(db_rate, INIT_RATE_DATA, RatePk)
    /\ db_conv' = InsertOrIgnore(db_conv, INIT_VOL_CONVENTIONS_DATA,
                                  ConventionsPk)
    /\ db_last' = "init_db"
    /\ UNCHANGED outsideDb

\* update_conventions, reached only on a connection, that is after an
\* init_db: no row of the currency raises ValueError before the commit.
UpdateConventions(ccy, libor, swap_rate, boundary_tenor) ==
    /\ "vol_conventions" \in db_tables
    /\ IF RowCount(db_conv, ccy) = 0
         THEN /\ db_last' = "ValueError"
              /\ UNCHANGED db_conv
         ELSE /\ db_conv' = UpdateWhereCurrency(db_conv, ccy, libor,
                                                 swap_rate, boundary_tenor)
              /\ db_last' = "update_conventions"
    /\ UNCHANGED <<db_tables, db_rate, db_inits>>
    /\ UNCHANGED outsideDb

DbNext ==
    \/ InitDb
    \/ \E ccy \in Currencies, libor \in LiborNames, swap_rate \in SwapNames,
          boundary_tenor \in BoundaryTenors :
          UpdateConventions(ccy, libor, swap_rate, boundary_tenor)

DbSpecInit ==
    /\ SessionInit
    /\ MuxInit(MaxCeiling)
    /\ ClientInit
    /\ RpcIdle
    /\ MatrixIdle
    /\ CacheInit /\ DbIdle /\ GridIdle

DbSpec == DbSpecInit /\ [][DbNext]_vars

\* ----------------------------------------------------------------- GridSpec
\* _mv_curr_loc with the location func(curr_loc): nothing happens when no
\* pair is selected, and an index outside its list raises before the
\* assignment.
MvCurrLoc(action, target_loc) ==
    /\ g_selected # << >>
    /\ g_last' = action
    /\ IF InRange(g_tenors, target_loc[1])
            /\ InRange(g_expiries, target_loc[2])
         THEN /\ g_selected' = <<PyGet(g_tenors, target_loc[1]),
                                 PyGet(g_expiries, target_loc[2])>>
              /\ UNCHANGED g_raised
         ELSE /\ g_raised' = TRUE
              /\ UNCHANGED g_selected
    /\ UNCHANGED <<g_tenors, g_expiries>>
    /\ UNCHANGED outsideGrid

action_cell_next == MvCurrLoc("cell_next", cell_next(CurrLoc))

action_cell_prev == MvCurrLoc("cell_prev", cell_prev(CurrLoc))

action_cell_down == MvCurrLoc("cell_down", cell_down(CurrLoc))

action_cell_up == MvCurrLoc("cell_up", cell_up(CurrLoc))

action_start_of_row == MvCurrLoc("start_of_row", start_of_row(CurrLoc))

action_end_of_row == MvCurrLoc("end_of_row", end_of_row(CurrLoc))

action_start_of_col == MvCurrLoc("start_of_col", start_of_col(CurrLoc))

action_end_of_col == MvCurrLoc("end_of_col", end_of_col(CurrLoc))

GridNext ==
    \/ action_cell_next
    \/ action_cell_prev
    \/ action_cell_down
    \/ action_cell_up
    \/ action_start_of_row
    \/ action_end_of_row
    \/ action_start_of_col
    \/ action_end_of_col

GridSpecInit ==
    /\ SessionInit
    /\ MuxInit(MaxCeiling)
    /\ ClientInit
    /\ RpcIdle
    /\ MatrixIdle
    /\ CacheInit /\ DbIdle /\ GridInit

GridSpec == GridSpecInit /\ [][GridNext]_vars

\* --------------------------------------------------- ClientSpec, ConnSpec
\* q_toast.put(ToastMessage(msg, severity)); src is the number of the
\* server message it reports, 0 for a toast of the client's own.
PutToast(msg, severity, src) ==
    /\ q_toast' = QueuePut(q_toast, [msg |-> msg, severity |-> severity,
                                     src |-> src])
    /\ toasted' = Append(toasted, [msg |-> msg, severity |-> severity,
                                   src |-> src])

\* The connection to the gateway closes.
ClientConnClose ==
    /\ c_ws = "open"
    /\ c_ws' = "closed"
    /\ UNCHANGED <<c_nRecv, c_nUi, c_nBeats, c_q_in, c_q_out, q_toast,
                   toasted, shown, handled, hb, c_send, c_recv, c_log>>
    /\ UNCHANGED stateVars
    /\ UNCHANGED outsideClient

\* ws_async.recv_loop, one iteration with a frame: ws.recv(), then
\* validate_json and q_in.put, or the ValidationError logged.
ClientRecvMsg ==
    /\ c_recv = "running"
    /\ c_ws = "open"
    /\ c_nRecv < MaxServerMsgs
    /\ \E f \in ServerFrames :
         IF ValidatesAsServerMsg(f)
           THEN /\ c_q_in' = QueuePut(c_q_in, ServerMsgOf(f, c_nRecv + 1))
                /\ UNCHANGED <<c_recv, c_log>>
           ELSE /\ c_recv' = Swallowed("decode")
                /\ c_log' = c_log \cup {"failed to decode server message"}
                /\ UNCHANGED c_q_in
    /\ c_nRecv' = c_nRecv + 1
    /\ UNCHANGED <<c_ws, c_nUi, c_nBeats, c_q_out, q_toast, toasted, shown,
                   handled, hb, c_send>>
    /\ UNCHANGED stateVars
    /\ UNCHANGED outsideClient

\* ws_async.recv_loop: ws.recv() raises ConnectionClosed.
ClientRecvClosed ==
    /\ c_recv = "running"
    /\ c_ws = "closed"
    /\ PutToast("ws connection closed", "warning", 0)
    /\ c_log' = c_log \cup {"ws connection closed"}
    /\ c_recv' = Swallowed("closed")
    /\ UNCHANGED <<c_ws, c_nRecv, c_nUi, c_nBeats, c_q_in, c_q_out, shown,
                   handled, hb, c_send>>
    /\ UNCHANGED stateVars
    /\ UNCHANGED outsideClient

\* Arbitui.recv_loop, one iteration: q_in.get() and handle_server_msg.  A
\* Notification is turned into a ToastMessage with severity.to_textual()
\* and put on q_toast; an exception raised on the way is logged by
\* recv_loop.  The other messages update the state.
AppRecvLoop ==
    /\ c_q_in # << >>
    /\ LET m == QueueGet(c_q_in)[1] IN
         /\ handled' = Append(handled, m)
         /\ IF m.type = "notification"
              THEN IF ToTextual(m.severity) = "RuntimeError"
                     THEN /\ c_log' = c_log \cup
                               {"exception in loop handling server messages"}
                          /\ UNCHANGED <<q_toast, toasted>>
                     ELSE /\ PutToast(m.msg, ToTextual(m.severity), m.no)
                          /\ UNCHANGED c_log
              ELSE UNCHANGED <<q_toast, toasted, c_log>>
         /\ IF FieldOf(m.type) # "none"
              THEN q_state_updates' =
                     PutNowait(q_state_updates,
                               [field |-> FieldOf(m.type), value |-> m.no])
              ELSE UNCHANGED q_state_updates
    /\ c_q_in' = QueueGet(c_q_in)[2]
    /\ UNCHANGED c_state
    /\ UNCHANGED <<c_ws, c_nRecv, c_nUi, c_nBeats, c_q_out, shown, hb,
                   c_send, c_recv>>
    /\ UNCHANGED outsideClient

\* Arbitui.state_updates_loop, one iteration: fn = q_state_updates.get()
\* and self.state = fn(self.state).
StateUpdatesLoop ==
    /\ q_state_updates # << >>
    /\ LET fn == QueueGet(q_state_updates)[1] IN
         c_state' = Replace(c_state, fn.field, fn.value)
    /\ q_state_updates' = QueueGet(q_state_updates)[2]
    /\ UNCHANGED <<c_ws, c_nRecv, c_nUi, c_nBeats, c_q_in, c_q_out, q_toast,
                   toasted, shown, handled, hb, c_send, c_recv, c_log>>
    /\ UNCHANGED outsideClient

\* Arbitui.toast_loop, one iteration: q_toast.get() and self.notify.
ToastLoop ==
    /\ q_toast # << >>
    /\ shown' = Append(shown, QueueGet(q_toast)[1])
    /\ q_toast' = QueueGet(q_toast)[2]
    /\ UNCHANGED <<c_ws, c_nRecv, c_nUi, c_nBeats, c_q_in, c_q_out, toasted,
                   handled, hb, c_send, c_recv, c_log>>
    /\ UNCHANGED stateVars
    /\ UNCHANGED outsideClient

\* The user selects a file or a cell: the request is put on q_out.
UiSubmit ==
    /\ c_nUi < MaxUiMsgs
    /\ \E t \in UiRequests : c_q_out' = QueuePut(c_q_out, t)
    /\ c_nUi' = c_nUi + 1
    /\ UNCHANGED <<c_ws, c_nRecv, c_nBeats, c_q_in, q_toast, toasted, shown,
                   handled, hb, c_send, c_recv, c_log>>
    /\ UNCHANGED stateVars
    /\ UNCHANGED outsideClient

\* ws_async.send_loop, one iteration: q_out.get(), then ws.send, which
\* raises ConnectionClosed on a closed connection.
ClientSendLoop ==
    /\ c_send = "running"
    /\ c_q_out # << >>
    /\ c_q_out' = QueueGet(c_q_out)[2]
    /\ IF c_ws = "open"
         THEN UNCHANGED <<q_toast, toasted, c_send, c_log>>
         ELSE /\ PutToast("ws connection closed", "warning", 0)
              /\ c_log' = c_log \cup {"ws connection closed"}
              /\ c_send' = Swallowed("closed")
    /\ UNCHANGED <<c_ws, c_nRecv, c_nUi, c_nBeats, c_q_in, shown, handled,
                   hb, c_recv>>
    /\ UNCHANGED stateVars
    /\ UNCHANGED outsideClient

\* send_heartbeat, one iteration that succeeds: the ping is written and
\* the task sleeps for the heartbeat period.
HeartbeatSend ==
    /\ hb = "running"
    /\ c_ws = "open"
    /\ c_nBeats < MaxBeats
    /\ c_nBeats' = c_nBeats + 1
    /\ UNCHANGED <<c_ws, c_nRecv, c_nUi, c_q_in, c_q_out, q_toast, toasted,
                   shown, handled, hb, c_send, c_recv, c_log>>
    /\ UNCHANGED stateVars
    /\ UNCHANGED outsideClient

\* The exceptions producing a heartbeat may end in: the ping does not
\* serialise, the connection is closed, or ws.send raises anything else.
HeartbeatFailures ==
    IF c_ws = "closed" THEN {"closed"} ELSE {"serialize", "other"}

\* send_heartbeat, one iteration that fails.  Were the exception to leave
\* the task, the TaskGroup would cancel send_loop and recv_loop.
HeartbeatFail ==
    /\ hb = "running"
    /\ \E kind \in HeartbeatFailures :
         /\ hb' = Swallowed(kind)
         /\ CASE kind = "serialize" ->
                   /\ c_log' = c_log \cup {"failed to serialize ping message"}
                   /\ UNCHANGED <<q_toast, toasted>>
              [] kind = "closed" ->
                   /\ c_log' = c_log \cup {"ws connection closed"}
                   /\ PutToast("ws connection closed", "warning", 0)
              [] kind = "other" ->
                   /\ c_log' = c_log \cup {"sending heartbeat failed"}
                   /\ PutToast("sending heartbeat failed", "warning", 0)
    /\ c_send' = GroupReaction(hb' = "failed", c_send)
    /\ c_recv' = GroupReaction(hb' = "failed", c_recv)
    /\ UNCHANGED <<c_ws, c_nRecv, c_nUi, c_nBeats, c_q_in, c_q_out, shown,
                   handled>>
    /\ UNCHANGED stateVars
    /\ UNCHANGED outsideClient

\* The client as the receiver of the gateway's messages.
ClientNext ==
    \/ ClientConnClose
    \/ ClientRecvMsg
    \/ ClientRecvClosed
    \/ AppRecvLoop
    \/ StateUpdatesLoop
    \/ ToastLoop

ClientSpecInit ==
    /\ SessionInit
    /\ MuxInit(MaxCeiling)
    /\ ClientInit
    /\ RpcIdle
    /\ MatrixIdle
    /\ CacheInit /\ DbIdle /\ GridIdle

ClientSpec == ClientSpecInit /\ [][ClientNext]_vars

\* The three tasks of ws_async over the connection.
ConnNext ==
    \/ ClientConnClose
    \/ UiSubmit
    \/ ClientSendLoop
    \/ HeartbeatSend
    \/ HeartbeatFail
    \/ ClientRecvClosed
    \/ ToastLoop

ConnSpec == ClientSpecInit /\ [][ConnNext]_vars

\* The client's event loop runs every task of ws_async that can take a
\* step, and toast_loop; the user and the network are under no obligation.
ConnFairSpec ==
    /\ ConnSpec
    /\ WF_vars(HeartbeatSend \/ HeartbeatFail)
    /\ WF_vars(ClientSendLoop)
    /\ WF_vars(ClientRecvClosed)
    /\ WF_vars(ToastLoop)

\* ================================================================ claims
AllTasksEnded == send \in Terminal /\ recv \in Terminal /\ disp \in Terminal

\* The places of enq that hold an error notification produced for frame r.
ErrorNotifications(r) ==
    {i \in 1..Len(enq) : /\ enq[i].req = r
                         /\ enq[i].type = "notification"
                         /\ enq[i].severity = "error"}

\* The calls that hold a permit of the admission semaphore.
Admitted == {c \in Callers : cst[c] \in {"admitted", "registered", "awaiting"}}

\* The calls whose request is on the wire and which have not completed.
OnWire == {c \in Callers : cst[c] = "awaiting"}

\* The calls that are in the table with their slot unfulfilled.
Outstanding ==
    {c \in Callers : cst[c] \in {"registered", "awaiting"} /\ fut[c] = Pending}

C4_AdmissionBound ==
    /\ Cardinality(Admitted) <= max_requests_in_flight
    /\ Cardinality(OnWire) <= max_requests_in_flight
    /\ sem = max_requests_in_flight - Cardinality(Admitted)
    /\ Cardinality(Admitted) = max_requests_in_flight
         => \A c \in Callers : ~ENABLED Acquire(c)

\* As many calls as the ceiling allows are on the wire and one more has been
\* issued and is blocked.
C4_Witness ==
    /\ Cardinality(OnWire) = max_requests_in_flight
    /\ \E c \in Callers : cst[c] = "issued"

\* C5 (connection-loss fan-out).  When the connection dies, every call that
\* is outstanding at that moment has its slot failed with ConnectionLost;
\* every call so failed that has ended has raised ConnectionLost; and after
\* the loss no call stays in progress for ever.
C5_ConnectionLossFanOut ==
    /\ [][(connOpen /\ ~connOpen')
            => \A c \in Outstanding : fut'[c] = Failure("ConnectionLost")]_vars
    /\ [](\A c \in Callers :
            (fut[c] = Failure("ConnectionLost") /\ cst[c] = "done")
              => result[c] = Failure("ConnectionLost"))
    /\ (~connOpen) ~> (\A c \in Callers : cst[c] \in {"idle", "done"})

\* The connection died with two calls outstanding and both have failed with
\* ConnectionLost.
C5_Witness ==
    /\ ~connOpen
    /\ Cardinality({c \in Callers : /\ cst[c] = "done"
                                    /\ result[c] = Failure("ConnectionLost")
                                    /\ cid[c] # 0}) >= 2
    /\ chanReq = {}

\* C6 (timeout cleanup).  No call waits for its response for ever: from
\* some moment on none is waiting any more; one that has failed with
\* Timeout has no entry in the table and keeps that outcome; and the answer
\* to its request has been delivered to no caller.
C6_TimeoutCleanup ==
    /\ <>[](\A c \in Callers : cst[c] # "awaiting")
    /\ [](\A c \in Callers :
            result[c] = Failure("Timeout") =>
               /\ pending[cid[c]] = 0
               /\ \A d \in Callers :
                    ~(fut[d].kind = "ok" /\ fut[d].value = Params(c)))
    /\ [][\A c \in Callers :
            result[c] = Failure("Timeout") => result'[c] = result[c]]_vars

\* A call has failed with Timeout and the response to its request, arrived
\* afterwards, has been discarded.
C6_Witness ==
    \E c \in Callers :
        /\ result[c] = Failure("Timeout")
        /\ \E rsp \in discarded : rsp.id = cid[c] /\ rsp.result = "value"

\* C2 (session isolation).  After a client message has failed to validate,
\* as long as the connection is open and the session has not been torn
\* down, a valid message the client has written since is still going to be
\* received: the receive task is running to read it.
C2_SessionIsolation ==
    ( /\ "failed to decode client message" \in log
      /\ ws = "open"
      /\ endpoint = "running"
      /\ net # << >>
      /\ ValidatesAsClientMsg(Head(net).js) )
      => recv = "running"

\* C3 (outbound ordering).  What has been written to the websocket is, place
\* by place, the beginning of what was put on q_out: the envelopes go out in
\* the order of the puts, none twice, none that was not put.
C3_OutboundOrdering ==
    /\ Len(wire) <= Len(enq)
    /\ \A i \in 1..Len(wire) : wire[i] = enq[i]
    /\ \A i, j \in 1..Len(enq) : enq[i] = enq[j] => i = j

\* Three envelopes were put by two different requests and two of them have
\* been written while the third is still queued.
C3_Witness ==
    /\ Len(enq) >= 3
    /\ Len(wire) = 2
    /\ q_out # << >>
    /\ enq[1].req # enq[3].req

C8_DisconnectCloses ==
    (ws = "peer_closed") ~> (endpoint = "returned" /\ AllTasksEnded)

\* C9 (no silent drops).  Every request whose handling has ended after a
\* storage lookup or an RPC call of it failed has an error notification on
\* the outbound queue's history.
C9_NoSilentDrops ==
    \A r \in 1..MaxFrames :
        (reqs[r].state \in {"returned", "raised"} /\ reqs[r].failed # {})
          => ErrorNotifications(r) # {}

\* The sub-steps of LoadCube that follow the loading of the file, named by
\* the envelope each puts on success.
LoadCubeSteps == {"conventions", "rates", "arbitrage_matrix", "vol_samples"}

\* The text of the error notification of each sub-step.
StepError(step) ==
    CASE step = "conventions" -> "failed to return conventions"
      [] step = "rates" -> "failed to return rates"
      [] step = "arbitrage_matrix" -> "failed to return arbitrage matrix"
      [] step = "vol_samples" -> "failed to return sampled data"

StepResults(r, step) ==
    {i \in 1..Len(enq) : enq[i].req = r /\ enq[i].type = step}

StepErrors(r, step) ==
    {i \in ErrorNotifications(r) : enq[i].msg = StepError(step)}

\* C10 (dispatch-path isolation in LoadCube).  For a LoadCube whose file
\* loaded, whose handling has ended and one of whose sub-steps failed: each
\* failed sub-step has exactly one error notification and no result, and
\* each other sub-step has run and has exactly one result or exactly one
\* error notification.
C10_LoadCubeIsolation ==
    \A r \in 1..MaxFrames :
        ( /\ reqs[r].type = "load_cube"
          /\ reqs[r].loaded
          /\ reqs[r].state \in {"returned", "raised"}
          /\ reqs[r].failed # {} )
          => \A step \in LoadCubeSteps :
               /\ Cardinality(StepResults(r, step))
                    + Cardinality(StepErrors(r, step)) = 1
               /\ step \in reqs[r].failed
                    <=> Cardinality(StepErrors(r, step)) = 1


\* C11 (unexpected exception in the dispatch task).  When the handling of a
\* request has raised an exception that no handler catches, the exception
\* is reported as an error notification put on q_out for that request and
\* the dispatch task has not ended: it goes on taking messages from q_in.
C11_UnexpectedException ==
    \A r \in 1..MaxFrames :
        reqs[r].state = "raised"
          => /\ disp # "done"
             /\ ErrorNotifications(r) # {}


\* C12 (a failed lookup or RPC call does not end the session).  Whatever
\* lookups and calls have failed, as long as nothing else has happened that
\* ends a task (the peer gone, a frame that is not JSON or does not
\* validate, an exception no handler catches), the send, receive and
\* dispatch tasks are all running and the endpoint is inside its TaskGroup.
C12_FailureKeepsSession ==
    ( /\ nFaults > 0
      /\ ws = "open"
      /\ "failed to decode client message" \notin log
      /\ "exception in receive loop" \notin log
      /\ \A r \in 1..MaxFrames : reqs[r].state # "raised" )
      => /\ send \notin Terminal
         /\ recv \notin Terminal
         /\ disp \notin Terminal
         /\ endpoint = "running"

\* The lookup or call of a Get* request failed, the failure was handled,
\* and the request that followed has been handled to its end, all three
\* tasks running.
C12_Witness ==
    /\ MaxFrames >= 2
    /\ reqs[1].type \notin {"none", "ping", "load_cube"}
    /\ reqs[1].failed # {}
    /\ reqs[1].state = "returned"
    /\ reqs[2].state = "returned"
    /\ send \notin Terminal /\ recv \notin Terminal /\ disp \notin Terminal
    /\ endpoint = "running"


\* The toasts put on q_toast for the server message numbered no.
ToastsOf(no) == {j \in 1..Len(toasted) : toasted[j].src = no}

\* C13 (notifications become toasts).  Every Notification that
\* handle_server_msg has been called with has produced exactly one toast,
\* with the notification's text and with the text of its severity, which
\* is what to_textual is to return for it.
C13_NotificationToast ==
    \A i \in 1..Len(handled) :
        handled[i].type = "notification"
          => /\ Cardinality(ToastsOf(handled[i].no)) = 1
             /\ \A j \in ToastsOf(handled[i].no) :
                  /\ toasted[j].msg = handled[i].msg
                  /\ toasted[j].severity = ValueOf(handled[i].severity)

\* C14 (outcome of an RPC call).  A call that has ended returned a typed
\* result only if the response carried no error object and a result that
\* is not null; a response with an error object made it fail, with or
\* without a result; a response with neither made it fail; and a call that
\* failed returned no value.
C14_RpcOutcome ==
    rpc_out # Unset =>
      /\ rpc_out.kind = "ok"
           => /\ rpc_js.error # "object"
              /\ rpc_js.result \notin {"absent", "null"}
      /\ rpc_js.error = "object" => rpc_out.kind # "ok"
      /\ (rpc_js.error # "object" /\ rpc_js.result \in {"absent", "null"})
           => rpc_out.kind # "ok"
      /\ rpc_out.kind # "ok" => rpc_out.value = 0

\* The response carried an error object together with a result, and the
\* call has failed with the remote error.
C14_Witness ==
    /\ rpc_js.error = "object"
    /\ rpc_js.result = "value"
    /\ rpc_js.id = "string"
    /\ rpc_out.kind = "RemoteError"

\* C17 (arbitrage-matrix strategies).  Cell by cell, get_arbitrage_matrix
\* never issues more than one check for a cell and no bulk call, and when
\* it returns every task has finished, one check was issued for each cell
\* and the list returned has exactly one entry for each cell.  In bulk it
\* issues no check, never more than one bulk call, and when it returns
\* it has issued that call and the list has one entry for each row of the
\* call's result, in the rows' order.
C17_MatrixStrategies ==
    /\ m_pc # "idle" /\ ~m_bulk =>
         /\ m_bulkCalls = 0
         /\ \A c \in Cells(m_vol) : m_calls[c] <= 1
         /\ m_pc = "returned" =>
              /\ \A c \in Cells(m_vol) : m_task[c] = "done" /\ m_calls[c] = 1
              /\ Len(m_result) = Cardinality(Cells(m_vol))
              /\ \A c \in Cells(m_vol) :
                   Cardinality({i \in 1..Len(m_result) :
                                   /\ m_result[i].tenor = c[1]
                                   /\ m_result[i].expiry = c[2]}) = 1
    /\ m_pc # "idle" /\ m_bulk =>
         /\ m_bulkCalls <= 1
         /\ \A c \in Cells(m_vol) : m_calls[c] = 0
         /\ m_pc = "returned" =>
              /\ m_bulkCalls = 1
              /\ Len(m_result) = Len(m_rows)
              /\ \A i \in 1..Len(m_rows) :
                   /\ m_result[i].tenor = m_rows[i][1]
                   /\ m_result[i].expiry = m_rows[i][2]
                   /\ m_result[i].check.arbitrage = m_rows[i][3]

\* Cell by cell, a cube of several cells has been handled and the entries
\* returned are not in the order in which the tasks were created.
C17_Witness ==
    /\ ~m_bulk
    /\ m_pc = "returned"
    /\ Len(m_result) >= 2
    /\ m_result[1].expiry > m_result[2].expiry

\* C18 (heartbeats are best-effort).  The heartbeat task never ends by
\* raising, the send and receive tasks are never cancelled, and the step
\* in which a heartbeat fails leaves the send and receive tasks as they
\* were; after a failure the heartbeat task is running or has returned.
C18_HeartbeatBestEffort ==
    /\ [](hb \in {"running", "done"})
    /\ [](c_send # "cancelled" /\ c_recv # "cancelled")
    /\ [][HeartbeatFail => (c_send' = c_send /\ c_recv' = c_recv)]_vars

\* On an open connection the writing of a heartbeat failed: the heartbeat
\* task has returned, its failure was shown as a toast, and the send and
\* receive tasks are running.
C18_Witness ==
    /\ hb = "done"
    /\ c_ws = "open"
    /\ \E j \in 1..Len(shown) : shown[j].msg = "sending heartbeat failed"
    /\ c_send = "running"
    /\ c_recv = "running"


\* C15 (unknown discriminants).  No message with a discriminant outside
\* ClientMsg is ever on q_in or in the dispatcher's hands, and the step in
\* which recv_loop reads a frame with such a discriminant leaves q_in as it
\* was and writes the decode failure to the log.
C15_UnknownDiscriminant ==
    /\ [](\A i \in 1..Len(q_in) : q_in[i].type \in ClientMsgTypes)
    /\ [](cur.type \in ClientMsgTypes \cup {"none"})
    /\ [](\A r \in 1..MaxFrames : reqs[r].type \in ClientMsgTypes \cup {"none"})
    /\ [][( /\ RecvMsg
            /\ Head(net).js.json
            /\ Head(net).js.type \notin ClientMsgTypes )
            => /\ q_in' = q_in
               /\ "failed to decode client message" \in log'
               /\ "union_tag_invalid" \in log']_vars

\* A frame with an unknown discriminant was read after a valid one: its
\* decode failure is in the log and the dispatcher has only had the valid
\* message.
C15_Witness ==
    /\ "union_tag_invalid" \in log
    /\ nSent >= 2
    /\ net = << >>
    /\ q_in = << >>
    /\ reqs[1].state = "returned"

\* C16 (bounded queues).  The inbound queue has a capacity: however many
\* frames the client writes, q_in never holds them all, a frame that
\* arrives when the queue is full being rejected; and q_out is bounded
\* likewise by the envelopes that are waiting to be sent.
C16_BoundedQueues ==
    /\ Len(q_in) < MaxFrames
    /\ Len(q_out) < MaxFrames

\* C19 (admission slots are given back).  The free permits are always the
\* ceiling less the calls that hold one, so all are free when no call is
\* in progress; the step in which a call that holds a permit completes
\* frees one, whatever the outcome; and no caller stays blocked at the
\* ceiling for ever.
C19_SlotRelease ==
    /\ [](sem = max_requests_in_flight - Cardinality(Admitted))
    /\ []((\A c \in Callers : cst[c] \in {"idle", "done"})
            => sem = max_requests_in_flight)
    /\ [][\A c \in Callers :
            (c \in Admitted /\ cst'[c] = "done") => sem' = sem + 1]_vars
    /\ <>[](\A c \in Callers : cst[c] # "issued")

\* With a ceiling of one, a call has ended by a failure and a second call,
\* which could only be admitted after it, has completed as well, and every
\* permit is free again.
C19_Witness ==
    /\ max_requests_in_flight = 1
    /\ \E c, d \in Callers :
         /\ c # d
         /\ cst[c] = "done" /\ result[c].kind \notin {"ok", "unset"}
         /\ cst[d] = "done" /\ result[d].kind = "ok"
    /\ sem = max_requests_in_flight

\* C20 (register before write).  The step that writes a call's request
\* finds the call's entry in the table; so every request on the wire and
\* every response not yet read belongs to a call that has been registered.
C20_RegisterBeforeWrite ==
    /\ [][\A c \in Callers :
            (cst[c] # "awaiting" /\ cst'[c] = "awaiting")
              => pending[cid[c]] = c]_vars
    /\ [](\A c \in Callers :
            (\E rq \in chanReq : rq.id = cid[c]) => fut[c] # Unset)
    /\ [](\A c \in Callers :
            (\E rsp \in chanRsp : rsp.id = cid[c]) => fut[c] # Unset)

\* A response is waiting to be read while its call's entry is in the
\* table.
C20_Witness ==
    \E rsp \in chanRsp :
        /\ pending[rsp.id] # 0
        /\ cid[pending[rsp.id]] = rsp.id
        /\ cst[pending[rsp.id]] = "awaiting"


\* C21 (pending-call table).  The table's entry for an identifier is the
\* call that carries that identifier on the wire, so no two calls share an
\* entry; every call in the table is outstanding, its slot neither
\* fulfilled nor failed; and the step in which a call's slot is fulfilled or
\* failed leaves no entry for it.
C21_PendingTable ==
    /\ [](\A i \in Ids :
            pending[i] # 0
              => /\ cid[pending[i]] = i
                 /\ fut[pending[i]] = Pending
                 /\ cst[pending[i]] \in {"registered", "awaiting"})
    /\ [](\A c, d \in Outstanding : c # d => cid[c] # cid[d])
    /\ [][\A c \in Callers :
            (fut[c] = Pending /\ fut'[c] # Pending)
              => \A i \in Ids : pending'[i] # c]_vars

\* One call's slot has been fulfilled with its result and its entry is
\* gone, while another call is still in the table.
C21_Witness ==
    \E c, d \in Callers :
        /\ c # d
        /\ cid[c] # 0 /\ cid[d] # 0
        /\ fut[c].kind = "ok"
        /\ pending[cid[c]] = 0
        /\ pending[cid[d]] = d
        /\ cst[d] = "awaiting"


\* C22 (a slot is fulfilled once).  A slot that holds a result or a failure
\* never changes again, nor does what a caller has been returned; and the
\* step in which the demultiplexing loop reads a response whose identifier
\* has no entry in the table discards that response and leaves the table,
\* every slot and every returned result as they were.
C22_FulfilledOnce ==
    /\ [][\A c \in Callers :
            /\ fut[c] \notin {Unset, Pending} => fut'[c] = fut[c]
            /\ result[c] # Unset => result'[c] = result[c]]_vars
    /\ [][\A rsp \in chanRsp :
            (DemuxRead /\ rsp \notin chanRsp' /\ pending[rsp.id] = 0)
              => /\ rsp \in discarded'
                 /\ UNCHANGED <<pending, fut, result>>]_vars
    /\ [](\A rsp \in discarded :
            \A c \in Callers : cid[c] = rsp.id => fut[c] # Pending)

\* A duplicate of the answer to a call that had been returned its result
\* was discarded, and so was an answer that came after its call had timed
\* out.
C22_Witness ==
    \E c, d \in Callers :
        /\ result[c].kind = "ok"
        /\ \E rsp \in discarded : rsp.id = cid[c]
        /\ result[d] = Failure("Timeout")
        /\ \E rsp \in discarded : rsp.id = cid[d]


\* C23 (one request at a time, in arrival order).  The dispatch task takes
\* a message from q_in only when no handler is under way, and takes the
\* one at the head; a request is taken up only when every earlier one has
\* been handled to its end; so on q_out's history the envelopes of an
\* earlier request all come before those of a later one.
C23_DispatchOrder ==
    /\ [][q_in' # q_in /\ Len(q_in') < Len(q_in)
            => /\ disp = "idle"
               /\ q_in' = Tail(q_in)
               /\ reqs'[Head(q_in).no].state # "none"]_vars
    /\ [](\A r, s \in 1..MaxFrames :
            (r < s /\ reqs[s].state # "none")
              => reqs[r].state \in {"none", "returned"})
    /\ [](\A i, j \in 1..Len(enq) : i < j => enq[i].req <= enq[j].req)

\* The second request was waiting on q_in while the first, a LoadCube, was
\* in the hands of its handler; both have been handled since, the first
\* having put several envelopes and the second its own after them.
C23_Witness ==
    /\ MaxFrames >= 2
    /\ reqs[1].type = "load_cube" /\ reqs[1].state = "returned"
    /\ reqs[2].state = "returned"
    /\ Len(enq) >= 6
    /\ enq[5].req = 1
    /\ enq[Len(enq)].req = 2


\* C24 (only the send task writes).  A step that adds to what has been
\* written to the websocket is a step of send_loop, which writes the one
\* envelope it took from q_out, the receive and dispatch tasks standing
\* still; and a step in which envelopes are produced puts them at the tail
\* of q_out and writes nothing.
C24_OnlySendWrites ==
    /\ [][wire' # wire
            => /\ send = "sending" /\ send' = "waiting"
               /\ wire' = Append(wire, sendMsg[1])
               /\ UNCHANGED <<recv, disp, cur, q_in, q_out, enq, reqs>>]_vars
    /\ [][enq' # enq
            => /\ wire' = wire
               /\ send' = send
               /\ Len(enq') > Len(enq)
               /\ q_out' = q_out \o SubSeq(enq', Len(enq) + 1, Len(enq'))]_vars

\* The error notification of log_notify_error and an envelope the
\* dispatcher put itself have both been written by the send task, which is
\* waiting for the next.
C24_Witness ==
    /\ \E i \in 1..Len(wire) :
         wire[i].type = "notification" /\ wire[i].severity = "error"
    /\ \E i \in 1..Len(wire) : wire[i].type = "vola_cube"
    /\ send = "waiting"
    /\ sendMsg = << >>


\* C25 (heartbeat pings go through the outbound queue).  The step in which
\* the heartbeat task produces a ping puts the ping at the tail of the
\* client's q_out, from where send_loop writes it in its turn after the
\* envelopes put before it.
C25_HeartbeatEnqueued ==
    [][c_nBeats' # c_nBeats => c_q_out' = QueuePut(c_q_out, "ping")]_vars

\* C26 (LoadCube whose file does not load).  A LoadCube request whose file
\* could not be read, decoded or validated has been handled to its end
\* with exactly one envelope, an error notification that names the failed
\* load, and the step that handled it made no lookup and no RPC call: it
\* left the dispatcher ready for the next message and raised no other
\* failure.
C26_LoadFailure ==
    /\ [](\A r \in 1..MaxFrames :
            (reqs[r].type = "load_cube" /\ ~reqs[r].loaded
               /\ reqs[r].state # "none")
              => /\ reqs[r].state = "returned"
                 /\ reqs[r].failed = {"load"}
                 /\ Cardinality({i \in 1..Len(enq) : enq[i].req = r}) = 1
                 /\ \A i \in 1..Len(enq) :
                      enq[i].req = r
                        => /\ i \in ErrorNotifications(r)
                           /\ enq[i].msg \in {"failed to validate json",
                                              "failed to decode json",
                                              "failed to load"})
    /\ [][\A r \in 1..MaxFrames :
            (reqs[r].state = "none" /\ reqs'[r].type = "load_cube"
               /\ ~reqs'[r].loaded)
              => /\ disp = "idle" /\ disp' = "idle"
                 /\ cur' = cur
                 /\ Len(enq') = Len(enq) + 1
                 /\ nFaults' = nFaults + 1]_vars

\* A LoadCube whose file did not load has had its one error notification
\* written to the websocket, and the request after it has been handled.
C26_Witness ==
    /\ MaxFrames >= 2
    /\ reqs[1].type = "load_cube" /\ ~reqs[1].loaded
    /\ reqs[1].state = "returned"
    /\ wire # << >> /\ wire[1].req = 1 /\ wire[1].type = "notification"
    /\ reqs[2].state = "returned"


\* C27 (the cell-by-cell matrix is all or nothing).  Cell by cell, once one
\* of the checks has failed get_arbitrage_matrix has raised: no task is
\* left created or calling, those that had not finished having been
\* cancelled, nothing is returned whatever the finished tasks had put on
\* Q, so no list exists to build an ArbitrageMatrix from; and nothing of
\* the call changes afterwards.
C27_AllOrNothing ==
    /\ []((~m_bulk /\ \E c \in Cells(m_vol) : m_task[c] = "failed")
            => /\ m_pc = "raised"
               /\ m_result = << >>
               /\ \A d \in Cells(m_vol) :
                    m_task[d] \in {"failed", "done", "cancelled"}
               /\ Len(m_Q)
                    = Cardinality({d \in Cells(m_vol) : m_task[d] = "done"}))
    /\ []((~m_bulk /\ m_pc = "returned")
            => \A c \in Cells(m_vol) : m_task[c] = "done")
    /\ [][m_pc = "raised" => UNCHANGED matrixVars]_vars

\* Of three checks one had returned and put its result on Q when another
\* failed; the third was cancelled, and nothing was returned.
C27_Witness ==
    /\ ~m_bulk
    /\ m_pc = "raised"
    /\ \E c, d, e \in Cells(m_vol) :
         /\ m_task[c] = "failed"
         /\ m_task[d] = "cancelled"
         /\ m_task[e] = "done"
    /\ m_Q # << >>
    /\ m_result = << >>


\* The envelopes put on q_out for frame r, in the order of the puts.
EnvelopesOf(r) == SelectSeq(enq, LAMBDA e : e.req = r)

\* Envelope e is the result of a LoadCube sub-step or its error
\* notification.
ResultOrError(e, step) ==
    \/ e.type = step
    \/ /\ e.type = "notification"
       /\ e.severity = "error"
       /\ e.msg = StepError(step)

\* C28 (envelopes of a LoadCube).  For a LoadCube whose file loaded and
\* whose handling has ended, the envelopes put for it are, in this order:
\* VolaCube; Conventions or its error notification; Rates or its error
\* notification; then ArbitrageMatrix and the information notification, or
\* the matrix's error notification; then VolSamples or its error
\* notification - six envelopes or five.
C28_LoadCubeEnvelopes ==
    \A r \in 1..MaxFrames :
        ( /\ reqs[r].type = "load_cube"
          /\ reqs[r].loaded
          /\ reqs[r].state \in {"returned", "raised"} )
          => LET es == EnvelopesOf(r) IN
               /\ Len(es) \in {5, 6}
               /\ es[1].type = "vola_cube"
               /\ ResultOrError(es[2], "conventions")
               /\ ResultOrError(es[3], "rates")
               /\ IF es[4].type = "arbitrage_matrix"
                    THEN /\ Len(es) = 6
                         /\ es[5].type = "notification"
                         /\ es[5].severity = "information"
                         /\ ResultOrError(es[6], "vol_samples")
                    ELSE /\ Len(es) = 5
                         /\ ResultOrError(es[4], "arbitrage_matrix")
                         /\ es[4].type = "notification"
                         /\ ResultOrError(es[5], "vol_samples")

\* Frame r, a Ping, is on q_in.
PingQueued(r) ==
    \E i \in 1..Len(q_in) : q_in[i].no = r /\ q_in[i].type = "ping"

\* The places of wire that hold the Pong for frame r.
PongsOf(r) == {i \in 1..Len(wire) : wire[i].req = r /\ wire[i].type = "pong"}

\* C29 (every Ping is answered).  A Ping that the receive task has put on
\* q_in is followed, unless the connection goes, by its one Pong on the
\* websocket, whatever was received before it.
C29_PingAnswered ==
    \A r \in 1..MaxFrames :
        PingQueued(r) ~> (ws # "open" \/ Cardinality(PongsOf(r)) = 1)

\* C30 (the client's connection tasks end).  Once the connection to the
\* gateway is closed, the heartbeat, send and receive tasks of ws_async all
\* come to an end, so that its TaskGroup is left and ws_async returns,
\* whether or not the user submits anything.
C30_TasksTerminate ==
    (c_ws = "closed")
      ~> (hb \in Terminal /\ c_send \in Terminal /\ c_recv \in Terminal)


\* The server messages the client has enqueued for handling, in the order
\* in which they were enqueued: those handled, then those still on q_in.
Enqueued == handled \o c_q_in

\* C31 (a server message that does not decode).  The step in which
\* ws_async.recv_loop receives a frame either puts the decoded ServerMsg
\* at the tail of q_in or, the frame not decoding, leaves q_in as it was
\* and writes the failure to the log; either way the loop is still running
\* afterwards, also when an earlier frame did not decode.  So what has been
\* enqueued is ServerMsgs only, in the order of their arrival.
C31_DecodeFailureDropped ==
    /\ [][c_nRecv' # c_nRecv
            => /\ c_recv' = "running"
               /\ \/ /\ c_q_in' = c_q_in
                     /\ "failed to decode server message" \in c_log'
                  \/ /\ Len(c_q_in') = Len(c_q_in) + 1
                     /\ SubSeq(c_q_in', 1, Len(c_q_in)) = c_q_in
                     /\ c_q_in'[Len(c_q_in')].no = c_nRecv']_vars
    /\ [](\A i \in 1..Len(Enqueued) :
            /\ Enqueued[i].type \in ServerMsgTypes
            /\ \A j \in 1..Len(Enqueued) :
                 i < j => Enqueued[i].no < Enqueued[j].no)
    /\ []("failed to decode server message" \in c_log /\ c_ws = "open"
            => c_recv = "running")

\* The first frame did not decode; the second, received after it, was
\* enqueued and has been handled.
C31_Witness ==
    /\ "failed to decode server message" \in c_log
    /\ Len(handled) = 1
    /\ handled[1].no = 2
    /\ c_recv = "running"


\* handle_server_msg: the kinds of server message that are stored, each
\* with the field of State it is stored in.
StoredIn ==
    {<<"rates", "rates">>, <<"conventions", "conventions">>,
     <<"arbitrage_matrix", "matrix">>, <<"vol_samples", "samples">>,
     <<"vola_cube", "cube">>}

\* The updates that handling the server messages so far has submitted, in
\* the order in which the messages were handled.
Updates ==
    LET stored == SelectSeq(handled, LAMBDA m : FieldOf(m.type) # "none") IN
      [i \in 1..Len(stored) |->
         [field |-> FieldOf(stored[i].type), value |-> stored[i].no]]

\* The value the last update of us to field f gives it; None without one.
LastIn(us, f) ==
    LET is == {i \in 1..Len(us) : us[i].field = f} IN
      IF is = {} THEN 0
      ELSE us[CHOOSE i \in is : \A j \in is : j <= i].value

\* C32 (frame of the client's State).  Handling a server message leaves
\* State as it is and submits one update for the field of the message's
\* kind, none for a Pong, a Notification or any other message; the step
\* that applies an update gives that one field the message's payload and
\* leaves the other four fields as they were.  Every payload in State is
\* that of a message of the field's own kind.
C32_StateFrame ==
    /\ [][Len(handled') > Len(handled)
            => LET m == handled'[Len(handled')] IN
                 /\ c_state' = c_state
                 /\ IF \E f \in StateFields : <<m.type, f>> \in StoredIn
                      THEN /\ Len(q_state_updates') = Len(q_state_updates) + 1
                           /\ <<m.type,
                                q_state_updates'[Len(q_state_updates')].field>>
                                \in StoredIn
                           /\ q_state_updates'[Len(q_state_updates')].value
                                = m.no
                      ELSE q_state_updates' = q_state_updates]_vars
    /\ [][c_state' # c_state
            => /\ q_state_updates # << >>
               /\ LET fn == Head(q_state_updates) IN
                    /\ c_state'[fn.field] = fn.value
                    /\ \A g \in StateFields \ {fn.field} :
                         c_state'[g] = c_state[g]]_vars
    /\ [](\A f \in StateFields :
            c_state[f] # 0
              => \E i \in 1..Len(handled) :
                   /\ handled[i].no = c_state[f]
                   /\ <<handled[i].type, f>> \in StoredIn)

\* A VolaCube and then Rates have been handled and applied: the second
\* update left the cube in place.
C32_Witness ==
    /\ c_state["cube"] = 1
    /\ c_state["rates"] = 2
    /\ q_state_updates = << >>

\* C33 (state updates are applied in order, none lost).  The updates
\* waiting on q_state_updates are the last ones submitted, in the order of
\* submission, and State is what the updates before them give when applied
\* one after the other; so once the queue is empty each field holds the
\* payload of the last handled message of its kind, or None.
C33_UpdatesInOrder ==
    /\ Len(q_state_updates) <= Len(Updates)
    /\ q_state_updates
         = SubSeq(Updates, Len(Updates) - Len(q_state_updates) + 1,
                  Len(Updates))
    /\ \A f \in StateFields :
         c_state[f]
           = LastIn(SubSeq(Updates, 1, Len(Updates) - Len(q_state_updates)),
                    f)
    /\ q_state_updates = << >>
         => \A f \in StateFields : c_state[f] = LastIn(Updates, f)

\* Two messages of one kind have been handled and both their updates
\* applied: the field holds the second payload.
C33_Witness ==
    /\ Len(handled) = 2
    /\ handled[1].type = "rates" /\ handled[2].type = "rates"
    /\ q_state_updates = << >>
    /\ c_state["rates"] = handled[2].no
    /\ c_state["rates"] # handled[1].no


\* C34: vol_sampling is memoised for the ttl.  A call whose arguments have
\* an entry in the cache, that is one set by an identical call that
\* returned less than the ttl ago, whichever Handler made it, returns the
\* value of the entry and issues no RPC call; a call whose arguments have
\* no entry, none set yet or the ttl elapsed, issues a new RPC call.  No
\* entry outlives the ttl and the arguments have at most one entry.
VsCallStep(h) ==
    /\ vs_pc[h] # "calling"
    /\ \/ vs_pc'[h] # vs_pc[h]
       \/ vs_args'[h] # vs_args[h]
       \/ vs_ret'[h] # vs_ret[h]

EntriesOf(args) == {e \in vs_cache : e.args = args}

C34_VolSamplingMemoised ==
    /\ [](\A e \in vs_cache :
            /\ e.age < vol_sampling_cache_ttl
            /\ EntriesOf(e.args) = {e})
    /\ [][\A h \in Handlers :
            VsCallStep(h) =>
              IF EntriesOf(vs_args'[h]) # {}
                THEN /\ vs_rpcs' = vs_rpcs
                     /\ vs_pc'[h] = "returned"
                     /\ \E e \in EntriesOf(vs_args'[h]) :
                          vs_ret'[h] = [value |-> e.value, rpc |-> FALSE]
                ELSE /\ vs_rpcs' = vs_rpcs + 1
                     /\ vs_pc'[h] = "calling"]_vars

\* One Handler's RPC call returned a value, another Handler was handed
\* that value from the cache for the same arguments, and the entry has
\* been set again since by a later RPC call.
C34_Witness ==
    \E h \in Handlers, g \in Handlers :
        /\ g # h
        /\ vs_pc[h] = "returned"
        /\ vs_ret[h] = [value |-> 1, rpc |-> FALSE]
        /\ vs_args[g] = vs_args[h]
        /\ vs_ret[g].rpc
        /\ \E e \in EntriesOf(vs_args[h]) : e.value = 2

\* C35: init_db is idempotent and keeps the data.  Run on a database whose
\* tables exist, it leaves the tables and the rows of rate and of
\* vol_conventions as they are, the conventions update_conventions has
\* changed included; run on a new database it leaves the seed rows.
C35_InitDbIdempotent ==
    [][db_inits' = db_inits + 1 =>
         IF db_inits >= 1
           THEN <<db_tables, db_rate, db_conv>>'
                  = <<db_tables, db_rate, db_conv>>
           ELSE /\ db_rate' = INIT_RATE_DATA
                /\ db_conv' = INIT_VOL_CONVENTIONS_DATA]_vars

\* init_db has run again after update_conventions changed the conventions
\* of both currencies, and they differ from the seed values.
C35_Witness ==
    /\ db_last = "init_db"
    /\ db_inits >= 2
    /\ db_conv \cap INIT_VOL_CONVENTIONS_DATA = {}
    /\ Cardinality(db_conv) = 2

\* C36: the grid navigation stays in bounds.  From a selected pair of the
\* matrix, no navigation action raises, the selected pair stays a tenor
\* and an expiry of the matrix, their indices in 0..len(tenors)-1 and in
\* 0..len(expiries)-1, and every action changes at most one of the two
\* indices.
InList(list, x) == \E i \in 1..Len(list) : list[i] = x

C36_NavigationInBounds ==
    /\ [](/\ ~g_raised
          /\ g_selected # << >> =>
               /\ InList(g_tenors, g_selected[1])
               /\ InList(g_expiries, g_selected[2])
               /\ CurrLoc[1] \in 0..(Len(g_tenors) - 1)
               /\ CurrLoc[2] \in 0..(Len(g_expiries) - 1))
    /\ [][g_selected # << >> =>
            \/ CurrLoc'[1] = CurrLoc[1]
            \/ CurrLoc'[2] = CurrLoc[2]]_vars

\* cell_next has acted and the selection is in the last column and the
\* last row of a matrix with several tenors and expiries whose tenors do
\* not start at the first period.
C36_Witness ==
    /\ g_last = "cell_next"
    /\ Len(g_tenors) >= 2
    /\ Len(g_expiries) >= 2
    /\ g_tenors[1] # 1
    /\ CurrLoc = <<Len(g_tenors) - 1, Len(g_expiries) - 1>>

====
